---- MODULE Spec2Model ----
(***************************************************************************)
(* OpenTranscriber (src/app.js): the undo/redo history, the live segment   *)
(* collection with the handlers that change it, and the automatic          *)
(* segmentation strategies.                                                *)
(*                                                                         *)
(* Objects.  A live segment is a JavaScript object; `segments` holds       *)
(* object identities and `heap` their fields, so that a write through one  *)
(* reference is seen through every other reference to the same object.     *)
(* An entry of a history snapshot carries the identity of the object it    *)
(* is (`ref`), Null when the object is referenced by the snapshot alone.   *)
(*                                                                         *)
(* Not modelled: the `color` field (a function of `speaker`), the          *)
(* `timestamp` of a snapshot (Date.now(), read nowhere), the WaveSurfer    *)
(* regions and the DOM other than the toast text.                          *)
(***************************************************************************)
EXTENDS Integers, Sequences, FiniteSets, TLC

\* ------------------------------------------------------------------ bounds
\* app.js:60 sets maxHistorySize to 50; the model runs the same code with a
\* smaller capacity so that a full stack is reached.
maxHistorySize == 2
\* at most this many live segments are created
MaxSegments == 2
\* at most this many speaker tracks are added
MaxTracks == 3
\* a run of the model is at most this many handler calls long
MaxSteps == 5

\* a dragged region becomes a segment when it is longer than 0.1 s (app.js:443)
MinDrag == 1
\* this.markStartTime = null
NoMark == -1
Null == 0

\* app.js:1094 suspends the silence scan at every index that is a multiple of
\* 100000; the model runs the same loop with a short stride.
YieldStride == 2
\* the audio buffers of the model hold at most this many samples
MaxSamples == 3
\* app.js:1244 gives no pitch to a segment of fewer than 400 samples; the
\* model keeps the test with a short minimum
MinPitchSamples == 2
\* app.js:1153 suspends the pitch loop after every 10th segment
PitchYieldStride == 1
\* app.js:1279: the rounds of kMeansClustering
KMeansRounds == 10
\* app.js:1197 suspends the frame scan at every index that is a multiple of
\* 10000
VadYieldStride == 2
\* the user actions interleaved with segmentation runs
MaxUserSteps == 1
\* the buffers given to the voice-activity strategy hold at most this many samples
MaxVadSamples == 14
\* app.js:1216: a run of voiced frames is kept when it has more frames than this
VoicedRunLimit == 10

\* the longest buffer the pitch estimator is called on directly
MaxPitchSamples == 5
\* the number of user actions interleaved with overlapping runs
MaxInterleaved == 3
\* the longest list of values the clusterer is called on directly
MaxClusterValues == 3
\* region bounds and playback positions, in units of 0.1 s
Times == {0, 1, 2}
Texts == {"", "a"}
UserNames == {<<"Ann", 0>>}

VARIABLES
    segments,         \* this.segments: sequence of object identities
    heap,             \* fields of the objects reachable from segments / selectedSegment
    selectedSegment,  \* this.selectedSegment: an object identity or Null
    speakerTracks,    \* this.speakerTracks: sequence of [speakerNum, name]
    visibleSpeaker,   \* this.visibleSpeaker: "all" (Null) or a speaker number
    undoStack,        \* this.undoStack
    redoStack,        \* this.redoStack
    toast,            \* text of the last showToast
    audioBuffer,      \* this.audioBuffer: the decoded samples and their rate
    segParams,        \* the parameter fields of the auto-segmentation dialog
    runs,             \* the calls of segmentBySilence in progress: their locals
    jobs,             \* the calls of autoSegment in progress: strategy, locals, reports
    dialog,           \* the auto-segmentation dialog: shown or not, its other fields
    progressUI,       \* the progress container: shown or not, bar width, hide timers
    op,               \* observer: the handler that ran last, "commit" for a step that commits
    saved,            \* observer: the label the last handler passed to saveState, "" if none
    mon,              \* observer: what the last steps were and the state before them
    steps,            \* observer: the number of handler calls so far
    returned,         \* observer: a direct call of a function: arguments, locals, result
    isMarking,        \* this.isMarking: the S key has marked a start
    markStartTime     \* this.markStartTime: the time marked, NoMark for null

progVars == <<segments, heap, selectedSegment, speakerTracks, visibleSpeaker,
              undoStack, redoStack, toast>>
obsVars == <<op, saved, mon, steps, returned>>
audioVars == <<audioBuffer, segParams, runs>>
jobVars == <<jobs, dialog, progressUI>>
markVars == <<isMarking, markStartTime>>
vars == <<segments, heap, selectedSegment, speakerTracks, visibleSpeaker,
          undoStack, redoStack, toast, audioBuffer, segParams, runs,
          jobs, dialog, progressUI, op, saved, mon, steps, returned,
          isMarking, markStartTime>>

\* ----------------------------------------------------------------- helpers
\* no function has been called directly yet
NoCall == [fn |-> "", args |-> <<>>, value |-> Null, threw |-> FALSE]
Front(s) == SubSeq(s, 1, Len(s) - 1)
Last(s) == s[Len(s)]
Range(s) == {s[k] : k \in DOMAIN s}
MinOf(S) == CHOOSE x \in S : \A y \in S : x <= y
\* the k-th smallest positive number outside `avoid`
NthFree(k, avoid) ==
    LET cand == (1 .. (k + Cardinality(avoid))) \ avoid
    IN CHOOSE x \in cand : Cardinality({y \in cand : y < x}) = k - 1

DefaultName(n) == <<"Speaker", n>>

\* the fields saveState / restoreState copy
Fields(r) ==
    [id |-> r.id, start |-> r.start, end |-> r.end,
     speaker |-> r.speaker, transcription |-> r.transcription]
Entry(o, r) ==
    [ref |-> o, id |-> r.id, start |-> r.start, end |-> r.end,
     speaker |-> r.speaker, transcription |-> r.transcription]

StackEntries(stack) ==
    UNION {Range(stack[i].segments) : i \in DOMAIN stack}
UsedObjs ==
    DOMAIN heap \cup ({e.ref : e \in StackEntries(undoStack) \cup StackEntries(redoStack)} \ {Null})
UsedIds ==
    {heap[o].id : o \in DOMAIN heap}
      \cup {e.id : e \in StackEntries(undoStack) \cup StackEntries(redoStack)}
\* a new object / a new segment id (Date.now() + random, or WaveSurfer's region id)
NewObj == NthFree(1, UsedObjs)
NewId == NthFree(1, UsedIds)

\* keep the objects still reachable from the live collection or the selection
Collect(h, segs, sel) ==
    [o \in (Range(segs) \cup ({sel} \ {Null})) |-> h[o]]

\* ----------------------------------------------------------------- history
\* a snapshot that stores the live object itself instead of a copy
ShareSegment(o) == Entry(o, heap[o])
\* saveState/undo/redo build the snapshot from fresh object literals
CopySegment(o) == Entry(Null, heap[o])
CopySpeaker(t) == [id |-> t.speakerNum, name |-> t.name]
CurrentState(actionName) ==
    [action |-> actionName,
     segments |-> [k \in DOMAIN segments |-> CopySegment(segments[k])],
     speakers |-> [k \in DOMAIN speakerTracks |-> CopySpeaker(speakerTracks[k])]]

\* pop() in place of shift(): over capacity the new snapshot is dropped
PushDropNewest(stack, state) ==
    LET pushed == Append(stack, state)
    IN IF Len(pushed) > maxHistorySize THEN Front(pushed) ELSE pushed
\* saveState: push, then shift() when the stack is over capacity
PushLimited(stack, state) ==
    LET pushed == Append(stack, state)
    IN IF Len(pushed) > maxHistorySize THEN Tail(pushed) ELSE pushed
\* saveState without the reset of the redo stack
KeepRedo(stack) == stack
\* saveState: this.redoStack = []
RedoAfterSave(stack) == <<>>

\* A write to object o is seen by every snapshot entry that is object o.
WriteThrough(stack, o, r) ==
    IF \A e \in StackEntries(stack) : e.ref # o
    THEN stack
    ELSE [i \in DOMAIN stack |->
            [stack[i] EXCEPT !.segments =
                [k \in DOMAIN stack[i].segments |->
                    IF stack[i].segments[k].ref = o
                    THEN Entry(o, r)
                    ELSE stack[i].segments[k]]]]

\* restoreState, speaker names: for each saved speaker the first track with
\* that number, if there is one, gets the saved name
RECURSIVE RestoreNames(_, _)
RestoreNames(tracks, spks) ==
    IF spks = <<>> THEN tracks
    ELSE LET spk == Head(spks)
             found == {k \in DOMAIN tracks : tracks[k].speakerNum = spk.id}
         IN RestoreNames(
                IF found = {} THEN tracks
                ELSE [tracks EXCEPT ![MinOf(found)].name = spk.name],
                Tail(spks))

\* restoreState, segments: a new object per saved entry
RestoredObj(state, k, us, rs) ==
    NthFree(k, {e.ref : e \in StackEntries(us) \cup StackEntries(rs)} \ {Null})

\* restoreState(state), the stacks being us and rs when it is called
RestoreState(state, us, rs) ==
    /\ selectedSegment' = Null
    /\ segments' = [k \in DOMAIN state.segments |-> RestoredObj(state, k, us, rs)]
    /\ heap' = [o \in {RestoredObj(state, k, us, rs) : k \in DOMAIN state.segments} |->
                  LET k == CHOOSE j \in DOMAIN state.segments :
                                RestoredObj(state, j, us, rs) = o
                  IN Fields(state.segments[k])]
    /\ speakerTracks' = RestoreNames(speakerTracks, state.speakers)

\* undo() past its emptiness check
UndoFound ==
    /\ redoStack' = Append(redoStack, CurrentState("before_undo"))
    /\ undoStack' = Front(undoStack)
    /\ RestoreState(Last(undoStack), undoStack', redoStack')
    /\ toast' = "Undo: " \o Last(undoStack).action
    /\ UNCHANGED visibleSpeaker

\* undo() without the emptiness check: the current state is pushed on the redo
\* stack, and restoreState(undefined) throws after closeEditor()
UndoUnguarded ==
    /\ op' = "undo"
    /\ saved' = ""
    /\ IF undoStack = <<>>
       THEN /\ redoStack' = Append(redoStack, CurrentState("before_undo"))
            /\ selectedSegment' = Null
            /\ heap' = Collect(heap, segments, Null)
            /\ UNCHANGED <<segments, speakerTracks, visibleSpeaker, undoStack, toast>>
       ELSE UndoFound

Undo ==
    /\ op' = "undo"
    /\ saved' = ""
    /\ IF undoStack = <<>>
       THEN /\ toast' = "Nothing to undo"
            /\ UNCHANGED <<segments, heap, selectedSegment, speakerTracks,
                           visibleSpeaker, undoStack, redoStack>>
       ELSE UndoFound

Redo ==
    /\ op' = "redo"
    /\ saved' = ""
    /\ IF redoStack = <<>>
       THEN /\ toast' = "Nothing to redo"
            /\ UNCHANGED <<segments, heap, selectedSegment, speakerTracks,
                           visibleSpeaker, undoStack, redoStack>>
       ELSE /\ undoStack' = Append(undoStack, CurrentState("before_redo"))
            /\ redoStack' = Front(redoStack)
            /\ RestoreState(Last(redoStack), undoStack', redoStack')
            /\ toast' = "Redo applied"
            /\ UNCHANGED visibleSpeaker

\* the audio file input's change handler: clearHistory(), then loadAudioFile
AudioFileChange ==
    /\ op' = "audioFileChange"
    /\ saved' = ""
    /\ undoStack' = <<>>
    /\ redoStack' = <<>>
    /\ toast' = "Chargement"
    /\ UNCHANGED <<segments, heap, selectedSegment, speakerTracks, visibleSpeaker>>

\* ----------------------------------------------------------- live segments
\* getDefaultSpeakerForNewSegment
DefaultSpeakerForNewSegment ==
    IF visibleSpeaker # Null THEN visibleSpeaker ELSE 1

\* [...].sort((a, b) => a.start - b.start) of object identities: stable
RECURSIVE SortByStart(_, _)
SortByStart(objs, h) ==
    IF objs = <<>> THEN <<>>
    ELSE LET rest == SortByStart(Front(objs), h)
             o == Last(objs)
             n == Cardinality({k \in DOMAIN rest : h[rest[k]].start <= h[o].start})
         IN SubSeq(rest, 1, n) \o <<o>> \o SubSeq(rest, n + 1, Len(rest))

\* findIndex(s => s.id === id), 1-based, 0 when there is none
FindIndexById(objs, h, id) ==
    LET hits == {k \in DOMAIN objs : h[objs[k]].id = id}
    IN IF hits = {} THEN 0 ELSE MinOf(hits)

\* onRegionCreated for a region the user dragged from start to end
OnRegionCreated(start, end) ==
    /\ Len(segments) < MaxSegments
    /\ op' = "onRegionCreated"
    /\ IF end - start > MinDrag
       THEN LET o == NewObj
                seg == [id |-> NewId, start |-> start, end |-> end,
                        speaker |-> DefaultSpeakerForNewSegment, transcription |-> ""]
            IN /\ undoStack' = PushLimited(undoStack, CurrentState("create segment (drag)"))
               /\ redoStack' = RedoAfterSave(redoStack)
               /\ saved' = "create segment (drag)"
               /\ segments' = Append(segments, o)
               /\ heap' = Collect((o :> seg) @@ heap, segments', o)
               /\ selectedSegment' = o
               /\ toast' = "Segment created"
               /\ UNCHANGED <<speakerTracks, visibleSpeaker>>
       ELSE /\ saved' = ""
            /\ UNCHANGED progVars

\* selectSegmentByRegion / a click on a region of a speaker track
SelectSegment(o) ==
    /\ o \in Range(segments)
    /\ op' = "selectSegment"
    /\ saved' = ""
    /\ selectedSegment' = o
    /\ heap' = Collect(heap, segments, o)
    /\ UNCHANGED <<segments, speakerTracks, visibleSpeaker, undoStack, redoStack, toast>>

CloseEditor ==
    /\ op' = "closeEditor"
    /\ saved' = ""
    /\ selectedSegment' = Null
    /\ heap' = Collect(heap, segments, Null)
    /\ UNCHANGED <<segments, speakerTracks, visibleSpeaker, undoStack, redoStack, toast>>

\* goToNextSegment: the selection after it
NextSelection(sel) ==
    IF sel = Null THEN Null
    ELSE LET sorted == SortByStart(segments, heap)
             currentIndex == FindIndexById(sorted, heap, heap[sel].id)
         IN IF currentIndex < Len(sorted) THEN sorted[currentIndex + 1] ELSE sel

\* goToPreviousSegment: the selection after it
PreviousSelection(sel) ==
    IF sel = Null THEN Null
    ELSE LET sorted == SortByStart(segments, heap)
             currentIndex == FindIndexById(sorted, heap, heap[sel].id)
         IN IF currentIndex > 1 THEN sorted[currentIndex - 1] ELSE sel

GoToNextSegment ==
    /\ op' = "goToNextSegment"
    /\ saved' = ""
    /\ selectedSegment' = NextSelection(selectedSegment)
    /\ heap' = Collect(heap, segments, selectedSegment')
    /\ UNCHANGED <<segments, speakerTracks, visibleSpeaker, undoStack, redoStack, toast>>

GoToPreviousSegment ==
    /\ op' = "goToPreviousSegment"
    /\ saved' = ""
    /\ selectedSegment' = PreviousSelection(selectedSegment)
    /\ heap' = Collect(heap, segments, selectedSegment')
    /\ UNCHANGED <<segments, speakerTracks, visibleSpeaker, undoStack, redoStack, toast>>

\* the transcription input's Enter key: saveTranscription(), then goToNextSegment()
SaveTranscription(text) ==
    /\ op' = "saveTranscription"
    /\ saved' = ""
    /\ IF selectedSegment = Null
       THEN UNCHANGED progVars
       ELSE LET r == [heap[selectedSegment] EXCEPT !.transcription = text]
                h == [heap EXCEPT ![selectedSegment] = r]
            IN /\ undoStack' = WriteThrough(undoStack, selectedSegment, r)
               /\ redoStack' = WriteThrough(redoStack, selectedSegment, r)
               /\ selectedSegment' = NextSelection(selectedSegment)
               /\ heap' = Collect(h, segments, selectedSegment')
               /\ toast' = "Transcription saved"
               /\ UNCHANGED <<segments, speakerTracks, visibleSpeaker>>

DeleteSegment ==
    /\ op' = "deleteSegment"
    /\ IF selectedSegment = Null
       THEN /\ saved' = ""
            /\ UNCHANGED progVars
       ELSE LET id == heap[selectedSegment].id
            IN /\ undoStack' = PushLimited(undoStack, CurrentState("delete segment"))
               /\ redoStack' = RedoAfterSave(redoStack)
               /\ saved' = "delete segment"
               /\ segments' = SelectSeq(segments, LAMBDA o : heap[o].id # id)
               /\ selectedSegment' = Null
               /\ heap' = Collect(heap, segments', Null)
               /\ toast' = "Segment deleted"
               /\ UNCHANGED <<speakerTracks, visibleSpeaker>>

ClampSpeaker(n) ==
    LET hi == IF Len(speakerTracks) < n THEN Len(speakerTracks) ELSE n
    IN IF hi < 1 THEN 1 ELSE hi

\* PageUp / PageDown: moveSegmentToSpeaker(-1 / +1)
MoveSegmentToSpeaker(direction) ==
    /\ op' = "moveSegmentToSpeaker"
    /\ IF selectedSegment = Null
          \/ ClampSpeaker(heap[selectedSegment].speaker + direction)
               = heap[selectedSegment].speaker
       THEN /\ saved' = ""
            /\ UNCHANGED progVars
       ELSE LET newSpeaker == ClampSpeaker(heap[selectedSegment].speaker + direction)
                r == [heap[selectedSegment] EXCEPT !.speaker = newSpeaker]
            IN /\ undoStack' = WriteThrough(
                       PushLimited(undoStack, CurrentState("change speaker")),
                       selectedSegment, r)
               /\ redoStack' = RedoAfterSave(redoStack)
               /\ saved' = "change speaker"
               /\ heap' = [heap EXCEPT ![selectedSegment] = r]
               \* newTrack.name throws when no track has the new number
               /\ toast' = IF \E k \in DOMAIN speakerTracks :
                                  speakerTracks[k].speakerNum = newSpeaker
                           THEN "Assigned to speaker" ELSE toast
               /\ UNCHANGED <<segments, selectedSegment, speakerTracks, visibleSpeaker>>

\* the speaker dropdown's change handler; its options are the tracks' numbers
SpeakerSelectChange(newSpeaker) ==
    /\ \E k \in DOMAIN speakerTracks : speakerTracks[k].speakerNum = newSpeaker
    /\ op' = "speakerSelectChange"
    /\ saved' = ""
    /\ IF selectedSegment = Null \/ heap[selectedSegment].speaker = newSpeaker
       THEN UNCHANGED progVars
       ELSE LET r == [heap[selectedSegment] EXCEPT !.speaker = newSpeaker]
            IN /\ heap' = [heap EXCEPT ![selectedSegment] = r]
               /\ undoStack' = WriteThrough(undoStack, selectedSegment, r)
               /\ redoStack' = WriteThrough(redoStack, selectedSegment, r)
               /\ UNCHANGED <<segments, selectedSegment, speakerTracks,
                              visibleSpeaker, toast>>

\* onRegionUpdated for the region of live segment o, moved or resized
OnRegionUpdated(o, start, end) ==
    /\ o \in Range(segments)
    /\ start < end
    /\ op' = "onRegionUpdated"
    /\ saved' = ""
    /\ LET first == segments[FindIndexById(segments, heap, heap[o].id)]
           r == [heap[first] EXCEPT !.start = start, !.end = end]
       IN /\ heap' = [heap EXCEPT ![first] = r]
          /\ undoStack' = WriteThrough(undoStack, first, r)
          /\ redoStack' = WriteThrough(redoStack, first, r)
    /\ UNCHANGED <<segments, selectedSegment, speakerTracks, visibleSpeaker, toast>>

\* ------------------------------------------------------------------ speakers
\* new SpeakerTrack(speakerNum, ...): this.name = `Speaker ${speakerNum}`
SpeakerTrack(speakerNum) == [speakerNum |-> speakerNum, name |-> DefaultName(speakerNum)]

AddSpeaker ==
    /\ Len(speakerTracks) < MaxTracks
    /\ op' = "addSpeaker"
    /\ saved' = ""
    /\ speakerTracks' = Append(speakerTracks, SpeakerTrack(Len(speakerTracks) + 1))
    /\ UNCHANGED <<segments, heap, selectedSegment, visibleSpeaker,
                   undoStack, redoStack, toast>>

\* the change handler of a track's name field
RenameSpeaker(k, name) ==
    /\ k \in DOMAIN speakerTracks
    /\ op' = "renameSpeaker"
    /\ saved' = ""
    /\ speakerTracks' = [speakerTracks EXCEPT ![k].name = name]
    /\ UNCHANGED <<segments, heap, selectedSegment, visibleSpeaker,
                   undoStack, redoStack, toast>>

\* removeSpeaker: the tracks after splice and renumbering (updateNumber resets the name)
TracksWithout(index) ==
    [k \in 1 .. (Len(speakerTracks) - 1) |-> SpeakerTrack(k)]

\* a track's remove button, confirmed
RemoveSpeaker(speakerNum) ==
    /\ \E k \in DOMAIN speakerTracks : speakerTracks[k].speakerNum = speakerNum
    /\ op' = "removeSpeaker"
    /\ saved' = ""
    /\ LET index == MinOf({k \in DOMAIN speakerTracks :
                              speakerTracks[k].speakerNum = speakerNum})
       IN /\ segments' = SelectSeq(segments, LAMBDA o : heap[o].speaker # speakerNum)
          /\ speakerTracks' = TracksWithout(index)
          /\ heap' = Collect(heap, segments', selectedSegment)
    /\ UNCHANGED <<selectedSegment, visibleSpeaker, undoStack, redoStack, toast>>

\* the speaker filter radio buttons: "all" (Null) or a track's number
FilterSegmentsBySpeaker(speakerNum) ==
    /\ \/ speakerNum = Null
       \/ \E k \in DOMAIN speakerTracks : speakerTracks[k].speakerNum = speakerNum
    /\ op' = "filterSegmentsBySpeaker"
    /\ saved' = ""
    /\ visibleSpeaker' = speakerNum
    /\ toast' = "Showing"
    /\ UNCHANGED <<segments, heap, selectedSegment, speakerTracks, undoStack, redoStack>>

\* -------------------------------------------------------------------- import
\* the project files offered to importProject
Projects ==
    { [valid |-> FALSE, speakers |-> <<>>, segments |-> <<>>],
      [valid |-> TRUE, speakers |-> <<>>, segments |-> <<>>],
      [valid |-> TRUE,
       speakers |-> <<[id |-> 1, name |-> <<"Ann", 0>>]>>,
       segments |-> <<[start |-> 0, end |-> 1, speaker |-> 1, transcription |-> "a"]>>] }

\* importProject's reader.onload
ImportProject(project) ==
    /\ project \in Projects
    /\ op' = "importProject"
    /\ IF ~project.valid
       THEN /\ saved' = ""
            /\ toast' = "Error: invalid file"
            /\ UNCHANGED <<segments, heap, selectedSegment, speakerTracks,
                           visibleSpeaker, undoStack, redoStack>>
       ELSE LET us == PushLimited(undoStack, CurrentState("before import"))
                keepObjs == ({selectedSegment} \ {Null})
                              \cup ({e.ref : e \in StackEntries(us)} \ {Null})
                keepIds == {heap[o].id : o \in DOMAIN heap}
                              \cup {e.id : e \in StackEntries(us)}
                n == Len(project.segments)
            IN /\ undoStack' = us
               /\ redoStack' = RedoAfterSave(redoStack)
               /\ saved' = "before import"
               /\ speakerTracks' =
                    IF Len(project.speakers) > 0
                    THEN [k \in DOMAIN project.speakers |->
                            [speakerNum |-> project.speakers[k].id,
                             name |-> project.speakers[k].name]]
                    ELSE speakerTracks
               /\ segments' = [k \in 1 .. n |-> NthFree(k, keepObjs)]
               /\ heap' = [o \in {NthFree(k, keepObjs) : k \in 1 .. n}
                                   \cup ({selectedSegment} \ {Null}) |->
                            IF o = selectedSegment THEN heap[o]
                            ELSE LET k == CHOOSE j \in 1 .. n : NthFree(j, keepObjs) = o
                                 IN [id |-> NthFree(k, keepIds),
                                     start |-> project.segments[k].start,
                                     end |-> project.segments[k].end,
                                     speaker |-> project.segments[k].speaker,
                                     transcription |-> project.segments[k].transcription]]
               /\ toast' = "Project imported"
               /\ UNCHANGED <<selectedSegment, visibleSpeaker>>

\* ------------------------------------------------------ silence segmenter
\* Sample values and thresholds are in units of 0.1. A buffer's sampleRate is
\* 1 or 2, in units of 100 samples per second, and times are in ticks of
\* 1/200 s, so that i / sampleRate is exact. Frequencies given as parameters
\* are in units of 100 Hz.
Samples == {-2, 0, 1}
SampleRates == {1, 2}
Thresholds == {1}
MinDurations == {0, 1, 2}
PauseTolerances == {0, 1}
RunIds == {1, 2}

RECURSIVE SeqsUpTo(_, _)
SeqsUpTo(S, n) ==
    IF n = 0 THEN {<<>>}
    ELSE LET shorter == SeqsUpTo(S, n - 1)
         IN shorter \cup {Append(q, x) : q \in {t \in shorter : Len(t) = n - 1}, x \in S}
Buffers ==
    {[samples |-> q, sampleRate |-> sr] : q \in SeqsUpTo(Samples, MaxSamples), sr \in SampleRates}
\* the audio files loaded while a scan is suspended
ReloadBuffers ==
    {[samples |-> <<>>, sampleRate |-> 1],
     [samples |-> <<-2, -2, -2>>, sampleRate |-> 2],
     [samples |-> <<0, -2, 0>>, sampleRate |-> 1]}
\* this.audioBuffer = null
NoAudio == [samples |-> <<>>, sampleRate |-> 0]
ParamSets ==
    [silenceThreshold : Thresholds, minSegmentDuration : MinDurations,
     pauseTolerance : PauseTolerances]

\* the sample as it is, sign included
Signed(x) == x
Abs(x) == IF x < 0 THEN -x ELSE x
\* i / sampleRate, in ticks
TimeOf(i, sampleRate) == (2 * i) \div sampleRate

NoRun ==
    [pc |-> "idle", channelData |-> <<>>, sampleRate |-> 0, threshold |-> 0,
     minDuration |-> 0, pauseTolerance |-> 0, i |-> 0, inSpeech |-> FALSE,
     segmentStart |-> 0, silenceStart |-> 0, segments |-> <<>>]

\* a scan that reads this.audioBuffer anew at every sample; past the end the
\* read is undefined and never exceeds the threshold
LiveSampleAt(run, i) ==
    IF i + 1 <= Len(audioBuffer.samples) THEN audioBuffer.samples[i + 1] ELSE 0
\* the sample a scan reads at (0-based) index i: taken from its own channelData
SampleAt(run, i) == run.channelData[i + 1]
ProvisionalSegment(start, end) ==
    [start |-> start, end |-> end, speaker |-> 1, f0 |-> Null]

\* a loop body that closes a segment but stays in speech
SilenceSampleStaying(run) ==
    LET time == TimeOf(run.i, run.sampleRate)
        amplitude == Abs(SampleAt(run, run.i))
    IN IF amplitude > run.threshold
       THEN [run EXCEPT !.segmentStart = IF run.inSpeech THEN @ ELSE time,
                        !.inSpeech = TRUE,
                        !.silenceStart = time,
                        !.i = @ + 1]
       ELSE IF run.inSpeech /\ (time - run.silenceStart) > run.pauseTolerance
       THEN [run EXCEPT !.segments =
                            IF run.silenceStart - run.segmentStart >= run.minDuration
                            THEN Append(@, ProvisionalSegment(run.segmentStart,
                                                              run.silenceStart))
                            ELSE @,
                        !.i = @ + 1]
       ELSE [run EXCEPT !.i = @ + 1]

\* a loop body whose tests are all inclusive: a sample at the threshold is
\* loud and a silence of exactly the pause tolerance closes the segment
SilenceSampleInclusive(run) ==
    LET time == TimeOf(run.i, run.sampleRate)
        amplitude == Abs(SampleAt(run, run.i))
    IN IF amplitude >= run.threshold
       THEN [run EXCEPT !.segmentStart = IF run.inSpeech THEN @ ELSE time,
                        !.inSpeech = TRUE,
                        !.silenceStart = time,
                        !.i = @ + 1]
       ELSE IF run.inSpeech /\ (time - run.silenceStart) >= run.pauseTolerance
       THEN [run EXCEPT !.segments =
                            IF run.silenceStart - run.segmentStart >= run.minDuration
                            THEN Append(@, ProvisionalSegment(run.segmentStart,
                                                              run.silenceStart))
                            ELSE @,
                        !.inSpeech = FALSE,
                        !.i = @ + 1]
       ELSE [run EXCEPT !.i = @ + 1]

\* the loop body of segmentBySilence for index run.i, the suspension aside
\* (the sample is read before the await and used after it; nothing writes the
\* samples of a decoded buffer)
SilenceSample(run) ==
    LET time == TimeOf(run.i, run.sampleRate)
        amplitude == Abs(SampleAt(run, run.i))
    IN IF amplitude > run.threshold
       THEN [run EXCEPT !.segmentStart = IF run.inSpeech THEN @ ELSE time,
                        !.inSpeech = TRUE,
                        !.silenceStart = time,
                        !.i = @ + 1]
       ELSE IF run.inSpeech /\ (time - run.silenceStart) > run.pauseTolerance
       THEN [run EXCEPT !.segments =
                            IF run.silenceStart - run.segmentStart >= run.minDuration
                            THEN Append(@, ProvisionalSegment(run.segmentStart,
                                                              run.silenceStart))
                            ELSE @,
                        !.inSpeech = FALSE,
                        !.i = @ + 1]
       ELSE [run EXCEPT !.i = @ + 1]

\* after the loop: the segment still open ends at the end of the buffer
SilenceLast(run) ==
    LET end == TimeOf(Len(run.channelData), run.sampleRate)
    IN [run EXCEPT !.pc = "returned",
                   !.segments =
                       IF run.inSpeech /\ end - run.segmentStart >= run.minDuration
                       THEN Append(@, ProvisionalSegment(run.segmentStart, end))
                       ELSE @]

\* the scan from index run.i up to its next suspension (the await at an index
\* that is a multiple of the stride) or to its return
RECURSIVE SilenceUntilYield(_)
SilenceUntilYield(run) ==
    IF run.i >= Len(run.channelData) THEN SilenceLast(run)
    ELSE IF run.i % YieldStride = 0 THEN run
    ELSE SilenceUntilYield(SilenceSample(run))

\* the whole scan with no suspension
RECURSIVE SilenceToEnd(_)
SilenceToEnd(run) ==
    IF run.i >= Len(run.channelData) THEN SilenceLast(run)
    ELSE SilenceToEnd(SilenceSample(run))

\* the locals of segmentBySilence(params, ...) as the loop is entered
SilenceLocals(params) ==
    [NoRun EXCEPT !.pc = "scan",
                  !.channelData = audioBuffer.samples,
                  !.sampleRate = audioBuffer.sampleRate,
                  !.threshold = params.silenceThreshold,
                  !.minDuration = params.minSegmentDuration,
                  !.pauseTolerance = params.pauseTolerance]

\* segmentBySilence(params, onProgress) is called: it runs to its first await
SegmentBySilence(r, params) ==
    /\ runs[r].pc = "idle"
    /\ audioBuffer # NoAudio
    /\ runs' = [runs EXCEPT ![r] = SilenceUntilYield(SilenceLocals(params))]
    /\ UNCHANGED <<audioBuffer, segParams>>
    /\ UNCHANGED <<progVars, jobVars, markVars>>

\* the timer of a suspended scan fires: the scan goes on with the sample at
\* which it was suspended
SilenceResume(r) ==
    /\ runs[r].pc = "scan"
    /\ runs' = [runs EXCEPT ![r] = SilenceUntilYield(SilenceSample(runs[r]))]
    /\ UNCHANGED <<audioBuffer, segParams>>
    /\ UNCHANGED <<progVars, jobVars, markVars>>

\* onAudioReady: an audio file has been decoded
OnAudioReady(buffer) ==
    /\ audioBuffer' = buffer
    /\ toast' = "Audio loaded!"
    /\ UNCHANGED <<segments, heap, selectedSegment, speakerTracks, visibleSpeaker,
                   undoStack, redoStack, segParams, runs, jobVars, markVars>>

\* ------------------------------------------------------- pitch, clusters
Min2(a, b) == IF a < b THEN a ELSE b
RECURSIVE SumTo(_, _)
\* f(1) + ... + f(n)
SumTo(f, n) == IF n = 0 THEN 0 ELSE SumTo(f, n - 1) + f[n]
RECURSIVE Gcd(_, _)
Gcd(a, b) == IF b = 0 THEN a ELSE Gcd(b, a % b)
\* a centroid is a fraction <<numerator, denominator>> in lowest terms
Fraction(n, d) == LET g == Gcd(Abs(n), d) IN <<n \div g, d \div g>>
\* Math.abs(value - centroid), and dist < minDist
Distance(value, centroid) ==
    Fraction(Abs(value * centroid[2] - centroid[1]), centroid[2])
Less(a, b) == a[1] * b[2] < b[1] * a[2]

\* slice(startSample, endSample) of the samples of this.audioBuffer
SliceOf(samples, startSample, endSample) ==
    SubSeq(samples, startSample + 1, Min2(endSample, Len(samples)))
\* the sum of segment[i] * segment[i + lag] over i < length - lag
Correlation(segment, lag) ==
    SumTo([i \in 1 .. Len(segment) - lag |-> segment[i] * segment[i + lag]],
          Len(segment) - lag)
\* the lags of the loop of extractF0: minLag <= lag < min(maxLag, length / 2)
CandidateLags(segment, sampleRate, f0Min, f0Max) ==
    {lag \in (sampleRate \div f0Max) .. ((sampleRate \div f0Min) - 1) :
        2 * lag < Len(segment)}
\* a loop that lets a later lag with an equal sum replace the earlier one
RECURSIVE LagLoopLast(_, _, _, _, _)
LagLoopLast(segment, lags, lag, maxCorr, bestLag) ==
    IF lag \notin lags THEN bestLag
    ELSE LET corr == Correlation(segment, lag)
         IN IF maxCorr = <<>> \/ corr >= maxCorr[1]
            THEN LagLoopLast(segment, lags, lag + 1, <<corr>>, lag)
            ELSE LagLoopLast(segment, lags, lag + 1, maxCorr, bestLag)
BestLagLast(segment, lags) ==
    IF lags = {} THEN 0 ELSE LagLoopLast(segment, lags, MinOf(lags), <<>>, 0)
\* the loop of extractF0 from lag on: maxCorr is <<>> for -Infinity, else the
\* greatest sum so far; a lag replaces bestLag when its sum is greater
RECURSIVE LagLoop(_, _, _, _, _)
LagLoop(segment, lags, lag, maxCorr, bestLag) ==
    IF lag \notin lags THEN bestLag
    ELSE LET corr == Correlation(segment, lag)
         IN IF maxCorr = <<>> \/ corr > maxCorr[1]
            THEN LagLoop(segment, lags, lag + 1, <<corr>>, lag)
            ELSE LagLoop(segment, lags, lag + 1, maxCorr, bestLag)
\* the lag the loop ends with, 0 when the loop has no lag to try
BestLag(segment, lags) ==
    IF lags = {} THEN 0 ELSE LagLoop(segment, lags, MinOf(lags), <<>>, 0)
\* bestLag at the end of the loop of extractF0 when this.audioBuffer is buffer
PitchLagOf(buffer, startTime, endTime, f0Min, f0Max) ==
    LET sampleRate == buffer.sampleRate
        startSample == (startTime * sampleRate) \div 2
        endSample == (endTime * sampleRate) \div 2
        segment == SliceOf(buffer.samples, startSample, endSample)
    IN BestLag(segment, CandidateLags(segment, sampleRate, f0Min, f0Max))
\* extractF0(startTime, endTime, f0Min, f0Max) when this.audioBuffer is buffer
\* at the call; the result is in units of 100/12 Hz, Null for null
ExtractF0Of(buffer, startTime, endTime, f0Min, f0Max) ==
    LET sampleRate == buffer.sampleRate
        startSample == (startTime * sampleRate) \div 2
        endSample == (endTime * sampleRate) \div 2
        segment == SliceOf(buffer.samples, startSample, endSample)
        bestLag == PitchLagOf(buffer, startTime, endTime, f0Min, f0Max)
    IN IF Len(segment) < MinPitchSamples THEN Null
       ELSE IF bestLag > 0 THEN (12 * sampleRate) \div bestLag
       ELSE Null
\* extractF0 reads this.audioBuffer as it is when called
ExtractF0(startTime, endTime, f0Min, f0Max) ==
    ExtractF0Of(audioBuffer, startTime, endTime, f0Min, f0Max)

\* values.slice().sort((a, b) => a - b)
RECURSIVE SortNumbers(_)
SortNumbers(values) ==
    IF values = <<>> THEN <<>>
    ELSE LET rest == SortNumbers(Front(values))
             v == Last(values)
             n == Cardinality({k \in DOMAIN rest : rest[k] <= v})
         IN SubSeq(rest, 1, n) \o <<v>> \o SubSeq(rest, n + 1, Len(rest))

\* findNearestCluster(value, centroids), 0-based as in the code: the first
\* index at the least distance, 0 for an empty list
FindNearestCluster(value, centroids) ==
    IF centroids = <<>> THEN 0
    ELSE (CHOOSE idx \in DOMAIN centroids :
            /\ \A j \in DOMAIN centroids :
                   ~Less(Distance(value, centroids[j]), Distance(value, centroids[idx]))
            /\ \A j \in DOMAIN centroids :
                   j < idx => Less(Distance(value, centroids[idx]),
                                   Distance(value, centroids[j]))) - 1

\* a round that seeds a centroid without values anew, at the first value
KMeansRoundReseeding(values, centroids) ==
    LET cluster(idx) ==
            {k \in DOMAIN values : FindNearestCluster(values[k], centroids) = idx - 1}
        sum(idx) ==
            SumTo([n \in 1 .. Len(values) |->
                      IF n \in cluster(idx) THEN values[n] ELSE 0], Len(values))
    IN [idx \in DOMAIN centroids |->
           IF cluster(idx) # {} THEN Fraction(sum(idx), Cardinality(cluster(idx)))
           ELSE Fraction(values[1], 1)]
\* one round of kMeansClustering: assign, then move the centroids that got values
KMeansRound(values, centroids) ==
    LET cluster(idx) ==
            {k \in DOMAIN values : FindNearestCluster(values[k], centroids) = idx - 1}
        sum(idx) ==
            SumTo([n \in 1 .. Len(values) |->
                      IF n \in cluster(idx) THEN values[n] ELSE 0], Len(values))
    IN [idx \in DOMAIN centroids |->
           IF cluster(idx) # {} THEN Fraction(sum(idx), Cardinality(cluster(idx)))
           ELSE centroids[idx]]
RECURSIVE KMeansIterate(_, _, _)
KMeansIterate(values, centroids, rounds) ==
    IF rounds = 0 THEN centroids
    ELSE KMeansIterate(values, KMeansRound(values, centroids), rounds - 1)
\* a start that takes the values in the order given, without sorting them
InitialUnsorted(values, k) ==
    LET step == Len(values) \div k
    IN [i \in 1 .. k |-> Fraction(values[Min2((i - 1) * step, Len(values) - 1) + 1], 1)]
\* the start of kMeansClustering: sorted[min(i * step, n - 1)] for i < k
InitialCentroids(values, k) ==
    LET sorted == SortNumbers(values)
        step == Len(sorted) \div k
    IN [i \in 1 .. k |-> Fraction(sorted[Min2((i - 1) * step, Len(sorted) - 1) + 1], 1)]
\* kMeansClustering throws when k is negative (Array(k) is a RangeError) and,
\* for a non-empty list, when k is 0 (clusters[0] is undefined)
KMeansThrows(values, k) == Len(values) >= k /\ (k < 0 \/ (k = 0 /\ values # <<>>))
\* kMeansClustering(values, k) when it returns
KMeansClustering(values, k) ==
    IF Len(values) < k THEN [i \in DOMAIN values |-> Fraction(values[i], 1)]
    ELSE KMeansIterate(values, InitialCentroids(values, k), KMeansRounds)

\* ------------------------------------------------------- voice activity
\* Math.floor(sampleRate * 0.025) and Math.floor(sampleRate * 0.010)
FrameSize(sampleRate) == (5 * sampleRate) \div 2
HopSize(sampleRate) == sampleRate
\* calculateEnergy(frame) > 0.01 for the frame that starts at index i
IsVoiced(channelData, i, frameSize) ==
    SumTo([n \in 1 .. frameSize |-> channelData[i + n] * channelData[i + n]],
          frameSize) > frameSize
\* the features.forEach of segmentByVADClustering: cur is currentSegment, Null
\* or the start, the number of features and the time of the last one
RECURSIVE VadFold(_, _, _, _)
VadFold(features, n, cur, out) ==
    IF n > Len(features) THEN out
    ELSE LET feat == features[n]
         IN IF feat.isVoiced
            THEN VadFold(features, n + 1,
                         IF cur = <<>> THEN <<feat.time, 1, feat.time>>
                         ELSE <<cur[1], cur[2] + 1, feat.time>>,
                         out)
            ELSE VadFold(features, n + 1, <<>>,
                         IF cur # <<>> /\ cur[2] > VoicedRunLimit
                         THEN Append(out, ProvisionalSegment(cur[1], cur[3]))
                         ELSE out)
VadSegments(features) == VadFold(features, 1, <<>>, <<>>)

\* ------------------------------------------------------------ orchestrator
Strategies == {"silence", "silence_f0", "vad_clustering", "sliding_window"}
\* the dialog as the page loads, its fields at their fallback values
\* (75 Hz and 300 Hz become 1 and 2 in units of 100 Hz)
ClosedDialog ==
    [open |-> FALSE, strategy |-> "silence", numSpeakers |-> 2, f0Min |-> 1, f0Max |-> 2]
NoProgress == [visible |-> FALSE, width |-> 0, timers |-> 0]
NoParams ==
    [silenceThreshold |-> 0, minSegmentDuration |-> 0, pauseTolerance |-> 0,
     numSpeakers |-> 0, f0Min |-> 0, f0Max |-> 0]
\* reports: what the run wrote to the progress bar, twice the percent each
\* (so that a half percent is a whole number), and who wrote it.
\* cancelled, added: observers, Cancel pressed while the run was suspended and
\* the ids of the segments the run created.
\* before, order: observers, the live segments and speakers just before the
\* run's commit and the rank of that commit among the commits (0 before it).
NoJob ==
    [pc |-> "idle", strategy |-> "", params |-> NoParams, segments |-> <<>>,
     i |-> 0, channelData |-> <<>>, sampleRate |-> 0, features |-> <<>>,
     reports |-> <<>>, cancelled |-> FALSE, added |-> {},
     before |-> [segments |-> <<>>, speakers |-> <<>>], order |-> 0]
Suspended == {"silence", "pitch", "vad"}

\* Math.round(num / den) for num >= 0 and den > 0
RoundDiv(num, den) == (2 * num + den) \div (2 * den)
\* the percent of the samples still to scan
PercentRemaining(i, length) == RoundDiv(100 * (length - i), length)
\* Math.round((i / length) * 100)
Percent(i, length) == RoundDiv(100 * i, length)
Report(job, twice, by) ==
    [job EXCEPT !.reports = Append(@, [twice |-> twice, by |-> by])]

\* the params object autoSegment builds from the fields of the dialog
DialogParams ==
    [silenceThreshold |-> segParams.silenceThreshold,
     minSegmentDuration |-> segParams.minSegmentDuration,
     pauseTolerance |-> segParams.pauseTolerance,
     numSpeakers |-> dialog.numSpeakers,
     f0Min |-> dialog.f0Min,
     f0Max |-> dialog.f0Max]

\* a strategy that returns only the segments it found a pitch for
ClusterDroppingUnpitched(job) ==
    [job EXCEPT !.pc = "commit",
                !.segments = SelectSeq(@, LAMBDA seg : seg.f0 # Null)]
\* a strategy that swallows the error of its clusterer and returns its list
ClusterSwallowing(job) == [job EXCEPT !.pc = "commit"]
\* segmentBySilenceAndF0 after its loop: cluster the pitches there are
ClusterPitches(job) ==
    LET withPitch == SelectSeq(job.segments, LAMBDA seg : seg.f0 # Null)
        f0Values == [k \in DOMAIN withPitch |-> withPitch[k].f0]
    IN IF f0Values = <<>> THEN [job EXCEPT !.pc = "commit"]
       ELSE IF KMeansThrows(f0Values, job.params.numSpeakers)
       THEN [job EXCEPT !.pc = "throw"]
       ELSE LET clusters == KMeansClustering(f0Values, job.params.numSpeakers)
            IN [job EXCEPT !.pc = "commit",
                           !.segments =
                               [k \in DOMAIN job.segments |->
                                   IF job.segments[k].f0 # Null
                                   THEN [job.segments[k] EXCEPT !.speaker =
                                            FindNearestCluster(job.segments[k].f0,
                                                               clusters) + 1]
                                   ELSE job.segments[k]]]

\* the pitch loop of segmentBySilenceAndF0 from (0-based) index job.i up to
\* its next suspension or to the end of the strategy
RECURSIVE PitchLoop(_)
PitchLoop(job) ==
    IF job.i >= Len(job.segments) THEN ClusterPitches(job)
    ELSE LET seg == job.segments[job.i + 1]
             f0 == ExtractF0(seg.start, seg.end, job.params.f0Min, job.params.f0Max)
             reported == Report(job, 2 * (50 + RoundDiv(50 * job.i, Len(job.segments))),
                                "pitch")
             done == [reported EXCEPT !.segments[job.i + 1].f0 = f0, !.i = @ + 1]
         IN IF job.i % PitchYieldStride = 0 THEN [done EXCEPT !.pc = "pitch"]
            ELSE PitchLoop(done)

\* the caller of segmentBySilence once the scan has run up to its suspension
\* or its return: the progress callback at a suspension, the rest of the
\* strategy after the return
AfterScan(job, run) ==
    IF run.pc = "scan"
    THEN LET p == Percent(run.i, Len(run.channelData))
         IN Report([job EXCEPT !.pc = "silence"],
                   IF job.strategy = "silence" THEN 2 * p ELSE p, "silence")
    ELSE IF job.strategy = "silence"
    THEN [job EXCEPT !.pc = "commit", !.segments = run.segments]
    ELSE PitchLoop([job EXCEPT !.segments = run.segments, !.i = 0])

\* segmentByVADClustering after the frame scan
VadFinish(job) ==
    Report(Report([job EXCEPT !.pc = "commit", !.segments = VadSegments(job.features)],
                  100, "vad"),
           200, "vad")
\* the frame scan from index job.i up to its next suspension or to the end
RECURSIVE VadLoop(_)
VadLoop(job) ==
    LET frameSize == FrameSize(job.sampleRate)
    IN IF job.i >= Len(job.channelData) - frameSize THEN VadFinish(job)
       ELSE LET feat == [time |-> TimeOf(job.i, job.sampleRate),
                         isVoiced |-> IsVoiced(job.channelData, job.i, frameSize)]
                pushed == [job EXCEPT !.features = Append(@, feat)]
            IN IF job.i % VadYieldStride = 0
               THEN Report([pushed EXCEPT !.pc = "vad"],
                           2 * (10 + RoundDiv(40 * job.i, Len(job.channelData))),
                           "vad")
               ELSE VadLoop([pushed EXCEPT !.i = @ + HopSize(job.sampleRate)])

\* runAutoSegmentation calls the strategy: the job when the strategy is first
\* suspended, has returned ("commit") or has thrown ("throw")
StartStrategy(job, run) ==
    IF job.strategy = "vad_clustering"
    THEN IF audioBuffer = NoAudio THEN Report([job EXCEPT !.pc = "throw"], 20, "vad")
         ELSE VadLoop(Report([job EXCEPT !.channelData = audioBuffer.samples,
                                         !.sampleRate = audioBuffer.sampleRate,
                                         !.i = 0],
                             20, "vad"))
    ELSE IF audioBuffer = NoAudio THEN [job EXCEPT !.pc = "throw"]
    ELSE AfterScan(job, run)
\* the job when the timer of its suspension fires
ResumeStrategy(job, run) ==
    IF job.pc = "silence" THEN AfterScan(job, run)
    ELSE IF job.pc = "pitch" THEN PitchLoop(job)
    ELSE VadLoop([job EXCEPT !.i = @ + HopSize(job.sampleRate)])

\* a commit of whatever the scan has found so far at each of its suspensions
ToCommitPartial(job, run) == IF job.pc = "commit" THEN job.segments ELSE run.segments
\* the segments runAutoSegmentation hands to createSegment at the end of a
\* step of the job: all of them once the strategy has returned, none before
ToCommit(job, run) == IF job.pc = "commit" THEN job.segments ELSE <<>>
\* createSegment for each of them: the new live objects, in order
CreatedObjs(list) == [k \in DOMAIN list |-> NthFree(k, UsedObjs)]
CreatedIds(list) == {NthFree(k, UsedIds) : k \in DOMAIN list}
CreatedHeap(list) ==
    [o \in Range(CreatedObjs(list)) |->
        LET k == CHOOSE n \in DOMAIN list : CreatedObjs(list)[n] = o
        IN [id |-> NthFree(k, UsedIds), start |-> list[k].start, end |-> list[k].end,
            speaker |-> list[k].speaker, transcription |-> ""]]

\* a run that leaves the bar where the last callback put it
BarLeftAlone(job) == job
\* runAutoSegmentation after the commit: progressBar.style.width = '100%'
FinalBar(job) == Report(job, 200, "bar")

\* What runAutoSegmentation and autoSegment do once the strategy is suspended,
\* has returned or has thrown: the bar follows the reports; after the return
\* the segments are created, the bar is set to 100%, the container is hidden
\* 1.5 s later, the toast is shown and the dialog closed; after a throw the
\* container is hidden and the error toast shown.
Settle(r, job, run, shown) ==
    LET list == ToCommit(job, run)
        objs == CreatedObjs(list)
        Committed ==
            [before |-> [segments |-> [k \in DOMAIN segments |-> Fields(heap[segments[k]])],
                         speakers |-> [k \in DOMAIN speakerTracks |->
                                          CopySpeaker(speakerTracks[k])]],
             order |-> Cardinality({q \in RunIds : jobs[q].pc = "done"}) + 1]
        width == IF job.reports = jobs[r].reports THEN shown.width
                 ELSE Last(job.reports).twice
    IN /\ segments' = segments \o objs
       /\ heap' = Collect(CreatedHeap(list) @@ heap, segments', selectedSegment)
       /\ UNCHANGED <<selectedSegment, speakerTracks, visibleSpeaker>>
       /\ IF job.pc = "commit"
          THEN /\ jobs' = [jobs EXCEPT ![r] =
                              FinalBar([job EXCEPT !.pc = "done",
                                                   !.added = @ \cup CreatedIds(list),
                                                   !.before = Committed.before,
                                                   !.order = Committed.order])]
               /\ progressUI' = [shown EXCEPT !.width = 200, !.timers = @ + 1]
               /\ toast' = "segments created!"
               /\ dialog' = [dialog EXCEPT !.open = FALSE]
          ELSE IF job.pc = "throw"
          THEN /\ jobs' = [jobs EXCEPT ![r] = [job EXCEPT !.pc = "failed"]]
               /\ progressUI' = [shown EXCEPT !.width = width, !.visible = FALSE]
               /\ toast' = "Segmentation error"
               /\ UNCHANGED dialog
          ELSE /\ jobs' = [jobs EXCEPT ![r] = [job EXCEPT !.added = @ \cup CreatedIds(list)]]
               /\ progressUI' = [shown EXCEPT !.width = width]
               /\ UNCHANGED <<toast, dialog>>

\* the click on Apply: autoSegment up to the first suspension of its strategy
\* (or to its end when the strategy is never suspended)
AutoSegment(r) ==
    LET job == [NoJob EXCEPT !.strategy = dialog.strategy, !.params = DialogParams]
        run == IF dialog.strategy = "vad_clustering" \/ audioBuffer = NoAudio
               THEN runs[r]
               ELSE SilenceUntilYield(SilenceLocals(DialogParams))
    IN /\ jobs[r].pc = "idle"
       /\ dialog.open
       /\ op' = IF StartStrategy(job, run).pc = "commit" THEN "commit" ELSE "autoSegment"
       /\ saved' = "auto-segmentation"
       /\ undoStack' = PushLimited(undoStack, CurrentState("auto-segmentation"))
       /\ redoStack' = RedoAfterSave(redoStack)
       /\ runs' = [runs EXCEPT ![r] = run]
       /\ Settle(r, StartStrategy(job, run), run,
                 [progressUI EXCEPT !.visible = TRUE, !.width = 0])
       /\ UNCHANGED <<audioBuffer, segParams>>

\* the timer of a suspended strategy fires
ResumeJob(r) ==
    LET run == IF jobs[r].pc = "silence"
               THEN SilenceUntilYield(SilenceSample(runs[r]))
               ELSE runs[r]
    IN /\ jobs[r].pc \in Suspended
       /\ op' = IF ResumeStrategy(jobs[r], run).pc = "commit" THEN "commit" ELSE "resume"
       /\ saved' = ""
       /\ runs' = [runs EXCEPT ![r] = run]
       /\ Settle(r, ResumeStrategy(jobs[r], run), run, progressUI)
       /\ UNCHANGED <<undoStack, redoStack, audioBuffer, segParams>>

\* the timer runAutoSegmentation sets after a commit fires
HideProgress ==
    /\ progressUI.timers > 0
    /\ progressUI' = [progressUI EXCEPT !.visible = FALSE, !.timers = @ - 1]
    /\ UNCHANGED <<progVars, markVars, audioVars, jobs, dialog>>

\* the click on the Auto-segment button
OpenAutoSegModal ==
    /\ dialog' = [dialog EXCEPT !.open = TRUE]
    /\ UNCHANGED <<progVars, markVars, audioVars, jobs, progressUI>>

\* the click on Cancel in the dialog: closeAutoSegModal
CancelSeg ==
    /\ dialog.open
    /\ dialog' = [dialog EXCEPT !.open = FALSE]
    /\ jobs' = [r \in RunIds |->
                  IF jobs[r].pc \in Suspended THEN [jobs[r] EXCEPT !.cancelled = TRUE]
                  ELSE jobs[r]]
    /\ UNCHANGED <<progVars, markVars, audioVars, progressUI>>

\* ------------------------------------------------------------ S key marking
\* a second press that also accepts an end equal to the start
ToggleMarkingInclusive(now) ==
    /\ Len(segments) < MaxSegments
    /\ op' = "toggleMarking"
    /\ IF ~isMarking
       THEN /\ markStartTime' = now
            /\ isMarking' = TRUE
            /\ saved' = ""
            /\ toast' = "Start marked"
            /\ UNCHANGED <<segments, heap, selectedSegment, speakerTracks,
                           visibleSpeaker, undoStack, redoStack>>
       ELSE /\ IF now >= markStartTime
               THEN LET o == NewObj
                        seg == [id |-> NewId, start |-> markStartTime, end |-> now,
                                speaker |-> DefaultSpeakerForNewSegment,
                                transcription |-> ""]
                    IN /\ undoStack' = PushLimited(undoStack,
                                                   CurrentState("create segment (S key)"))
                       /\ redoStack' = RedoAfterSave(redoStack)
                       /\ saved' = "create segment (S key)"
                       /\ segments' = Append(segments, o)
                       /\ heap' = Collect((o :> seg) @@ heap, segments', selectedSegment)
                       /\ toast' = "Segment created!"
                       /\ UNCHANGED <<selectedSegment, speakerTracks, visibleSpeaker>>
               ELSE /\ saved' = ""
                    /\ UNCHANGED progVars
            /\ isMarking' = FALSE
            /\ markStartTime' = NoMark
\* toggleMarking with this.masterWave.getCurrentTime() = now: the first press
\* marks the start, the second one creates the segment if now is later
ToggleMarking(now) ==
    /\ Len(segments) < MaxSegments
    /\ op' = "toggleMarking"
    /\ IF ~isMarking
       THEN /\ markStartTime' = now
            /\ isMarking' = TRUE
            /\ saved' = ""
            /\ toast' = "Start marked"
            /\ UNCHANGED <<segments, heap, selectedSegment, speakerTracks,
                           visibleSpeaker, undoStack, redoStack>>
       ELSE /\ IF now > markStartTime
               THEN LET o == NewObj
                        seg == [id |-> NewId, start |-> markStartTime, end |-> now,
                                speaker |-> DefaultSpeakerForNewSegment,
                                transcription |-> ""]
                    IN /\ undoStack' = PushLimited(undoStack,
                                                   CurrentState("create segment (S key)"))
                       /\ redoStack' = RedoAfterSave(redoStack)
                       /\ saved' = "create segment (S key)"
                       /\ segments' = Append(segments, o)
                       /\ heap' = Collect((o :> seg) @@ heap, segments', selectedSegment)
                       /\ toast' = "Segment created!"
                       /\ UNCHANGED <<selectedSegment, speakerTracks, visibleSpeaker>>
               ELSE /\ saved' = ""
                    /\ UNCHANGED progVars
            /\ isMarking' = FALSE
            /\ markStartTime' = NoMark

\* ------------------------------------------------------------------ observer
LiveContent ==
    [segments |-> [k \in DOMAIN segments |-> Fields(heap[segments[k]])],
     speakers |-> [k \in DOMAIN speakerTracks |-> CopySpeaker(speakerTracks[k])]]
SnapshotContent(state) ==
    [segments |-> [k \in DOMAIN state.segments |-> Fields(state.segments[k])],
     speakers |-> state.speakers]
Contents(stack) == [i \in DOMAIN stack |-> SnapshotContent(stack[i])]
NoContent == [segments |-> <<>>, speakers |-> <<>>]
MonIdle == [phase |-> "", live0 |-> NoContent, live1 |-> NoContent,
            undo1 |-> <<>>, redo1 |-> <<>>, shifted |-> FALSE, cleared |-> 0]

\* mon.phase spells the last steps: A a handler that called saveState, u an
\* undo and r a redo that found a snapshot; live0 is the live state before the
\* last A, live1 / undo1 / redo1 the live state and the stacks before the first
\* u; cleared is the number of redo entries the last A discarded; shifted tells
\* that some saveState has found the undo stack full.
MonNext ==
    LET idle == [MonIdle EXCEPT !.shifted = mon.shifted]
    IN mon' =
      IF saved' # ""
      THEN [idle EXCEPT !.phase = IF mon.phase \in {"A", "AA"} THEN "AA" ELSE "A",
                        !.live0 = LiveContent,
                        !.cleared = Len(redoStack),
                        !.shifted = mon.shifted \/ Len(undoStack) = maxHistorySize]
      ELSE IF op' = "undo" /\ undoStack # <<>>
      THEN IF mon.phase = "u"
           THEN [mon EXCEPT !.phase = "uu", !.cleared = 0]
           ELSE [idle EXCEPT !.phase = IF mon.phase = "AA" THEN "AAu" ELSE "u",
                             !.live0 = IF mon.phase = "AA" THEN mon.live0 ELSE NoContent,
                             !.live1 = LiveContent,
                             !.undo1 = Contents(undoStack),
                             !.redo1 = Contents(redoStack)]
      ELSE IF op' = "redo" /\ redoStack # <<>> /\ mon.phase \in {"AAu", "u", "uu", "uur"}
      THEN [mon EXCEPT !.phase = mon.phase \o "r"]
      ELSE idle

\* ------------------------------------------------------------ specification
\* the constructor: empty collections, then createDefaultSpeakers adds three tracks
Init ==
    /\ segments = <<>>
    /\ heap = <<>>
    /\ selectedSegment = Null
    /\ speakerTracks = [k \in 1 .. 3 |-> SpeakerTrack(k)]
    /\ visibleSpeaker = Null
    /\ undoStack = <<>>
    /\ redoStack = <<>>
    /\ toast = ""
    /\ audioBuffer = NoAudio
    /\ segParams = [silenceThreshold |-> 1, minSegmentDuration |-> 1, pauseTolerance |-> 1]
    /\ runs = [r \in RunIds |-> NoRun]
    /\ jobs = [r \in RunIds |-> NoJob]
    /\ dialog = ClosedDialog
    /\ progressUI = NoProgress
    /\ op = ""
    /\ saved = ""
    /\ mon = MonIdle
    /\ steps = 0
    /\ isMarking = FALSE
    /\ markStartTime = NoMark
    /\ returned = NoCall

\* one handler call, observed
Handle(Handler) ==
    /\ steps < MaxSteps
    /\ Handler
    /\ steps' = steps + 1
    /\ MonNext
    /\ UNCHANGED <<audioVars, jobVars, returned>>
\* a call of a handler that has nothing to do with the S key
Call(Handler) == Handle(Handler) /\ UNCHANGED markVars

Next ==
    \/ Call(Undo)
    \/ Call(Redo)
    \/ Call(AudioFileChange)
    \/ \E start \in Times, end \in Times : Call(OnRegionCreated(start, end))
    \/ \E o \in Range(segments) : Call(SelectSegment(o))
    \/ Call(CloseEditor)
    \/ Call(GoToNextSegment)
    \/ Call(GoToPreviousSegment)
    \/ \E text \in Texts : Call(SaveTranscription(text))
    \/ Call(DeleteSegment)
    \/ \E direction \in {-1, 1} : Call(MoveSegmentToSpeaker(direction))
    \/ \E n \in 1 .. MaxTracks : Call(SpeakerSelectChange(n))
    \/ \E o \in Range(segments), start \in Times, end \in Times :
           Call(OnRegionUpdated(o, start, end))
    \/ Call(AddSpeaker)
    \/ \E k \in 1 .. MaxTracks, name \in UserNames : Call(RenameSpeaker(k, name))
    \/ \E n \in 1 .. MaxTracks : Call(RemoveSpeaker(n))
    \/ \E project \in Projects : Call(ImportProject(project))

Spec == Init /\ [][Next]_vars

\* The silence segmenter on every buffer and parameter set of the bounds: two
\* calls with the parameters of the dialog, suspended and resumed in any order, while
\* other audio files become ready.
InitSilence ==
    /\ segments = <<>>
    /\ heap = <<>>
    /\ selectedSegment = Null
    /\ speakerTracks = [k \in 1 .. 3 |-> SpeakerTrack(k)]
    /\ visibleSpeaker = Null
    /\ undoStack = <<>>
    /\ redoStack = <<>>
    /\ toast = ""
    /\ audioBuffer \in Buffers
    /\ segParams \in ParamSets
    /\ runs = [r \in RunIds |-> NoRun]
    /\ jobs = [r \in RunIds |-> NoJob]
    /\ dialog = ClosedDialog
    /\ progressUI = NoProgress
    /\ op = ""
    /\ saved = ""
    /\ mon = MonIdle
    /\ steps = 0
    /\ isMarking = FALSE
    /\ markStartTime = NoMark
    /\ returned = NoCall

NextSilence ==
    \/ \E r \in RunIds : SegmentBySilence(r, segParams) /\ UNCHANGED obsVars
    \/ \E r \in RunIds : SilenceResume(r) /\ UNCHANGED obsVars
    \/ \E buffer \in ReloadBuffers : OnAudioReady(buffer) /\ UNCHANGED obsVars

SpecSilence == InitSilence /\ [][NextSilence]_vars

\* Segmentation runs started from the dialog: an audio file is loaded, the
\* dialog is open with any strategy and parameters of the bounds; the
\* suspensions of a run are interleaved with Cancel, with a new audio file
\* and with user actions on the segments and the history.
RunDialogs ==
    [open : {TRUE}, strategy : Strategies, numSpeakers : {0, 2}, f0Min : {1},
     f0Max : {1, 2}]
RunParamSets ==
    [silenceThreshold : Thresholds, minSegmentDuration : {0}, pauseTolerance : {0}]
RunJobs == {1}
RunReloads == {[samples |-> <<0, -2, 0>>, sampleRate |-> 1]}
InitRun ==
    /\ segments = <<>>
    /\ heap = <<>>
    /\ selectedSegment = Null
    /\ speakerTracks = [k \in 1 .. 3 |-> SpeakerTrack(k)]
    /\ visibleSpeaker = Null
    /\ undoStack = <<>>
    /\ redoStack = <<>>
    /\ toast = "Audio loaded!"
    /\ audioBuffer \in Buffers
    /\ segParams \in RunParamSets
    /\ runs = [r \in RunIds |-> NoRun]
    /\ jobs = [r \in RunIds |-> NoJob]
    /\ dialog \in RunDialogs
    /\ progressUI = NoProgress
    /\ op = ""
    /\ saved = ""
    /\ mon = MonIdle
    /\ steps = 0
    /\ isMarking = FALSE
    /\ markStartTime = NoMark
    /\ returned = NoCall

\* a step of a run, observed
RunStep(Step) == Step /\ MonNext /\ UNCHANGED <<steps, returned, markVars>>
\* a user action between the steps of the runs
UserCall(Handler) ==
    /\ steps < MaxUserSteps
    /\ Handler
    /\ steps' = steps + 1
    /\ MonNext
    /\ UNCHANGED <<audioVars, jobVars, returned, markVars>>

NextRun ==
    \/ \E r \in RunJobs : RunStep(AutoSegment(r))
    \/ \E r \in RunJobs : RunStep(ResumeJob(r))
    \/ HideProgress /\ UNCHANGED obsVars
    \/ CancelSeg /\ UNCHANGED obsVars
    \/ \E buffer \in RunReloads : OnAudioReady(buffer) /\ UNCHANGED obsVars
    \/ UserCall(OnRegionCreated(0, 2))
    \/ UserCall(Undo)

SpecRun == InitRun /\ [][NextRun]_vars

\* The voice-activity strategy on every buffer of loud and silent samples up
\* to MaxVadSamples, at 100 samples per second: frames of 2 samples, one
\* frame per sample.
VadBuffers ==
    {[samples |-> q, sampleRate |-> 1] : q \in SeqsUpTo({0, -2}, MaxVadSamples)}
InitVad ==
    /\ segments = <<>>
    /\ heap = <<>>
    /\ selectedSegment = Null
    /\ speakerTracks = [k \in 1 .. 3 |-> SpeakerTrack(k)]
    /\ visibleSpeaker = Null
    /\ undoStack = <<>>
    /\ redoStack = <<>>
    /\ toast = "Audio loaded!"
    /\ audioBuffer \in VadBuffers
    /\ segParams = [silenceThreshold |-> 1, minSegmentDuration |-> 1, pauseTolerance |-> 1]
    /\ runs = [r \in RunIds |-> NoRun]
    /\ jobs = [r \in RunIds |-> NoJob]
    /\ dialog = [ClosedDialog EXCEPT !.open = TRUE, !.strategy = "vad_clustering"]
    /\ progressUI = NoProgress
    /\ op = ""
    /\ saved = ""
    /\ mon = MonIdle
    /\ steps = 0
    /\ isMarking = FALSE
    /\ markStartTime = NoMark
    /\ returned = NoCall

NextVad ==
    \/ \E r \in RunJobs : RunStep(AutoSegment(r))
    \/ \E r \in RunJobs : RunStep(ResumeJob(r))
    \/ HideProgress /\ UNCHANGED obsVars

SpecVad == InitVad /\ [][NextVad]_vars

\* The pitch estimator called directly: any buffer of up to MaxPitchSamples
\* samples at 200 or 400 samples per second, any interval of the first ticks,
\* f0Min 100 Hz and f0Max from 100 to 800 Hz.
PitchRates == {2, 4}
PitchTimes == 0 .. 3
PitchMaxima == {1, 2, 4, 8}
PitchBuffers ==
    {[samples |-> q, sampleRate |-> sr] :
        q \in SeqsUpTo(Samples, MaxPitchSamples), sr \in PitchRates}
InitPitch ==
    /\ segments = <<>>
    /\ heap = <<>>
    /\ selectedSegment = Null
    /\ speakerTracks = [k \in 1 .. 3 |-> SpeakerTrack(k)]
    /\ visibleSpeaker = Null
    /\ undoStack = <<>>
    /\ redoStack = <<>>
    /\ toast = "Audio loaded!"
    /\ audioBuffer \in PitchBuffers
    /\ segParams = [silenceThreshold |-> 1, minSegmentDuration |-> 1, pauseTolerance |-> 1]
    /\ runs = [r \in RunIds |-> NoRun]
    /\ jobs = [r \in RunIds |-> NoJob]
    /\ dialog = ClosedDialog
    /\ progressUI = NoProgress
    /\ op = ""
    /\ saved = ""
    /\ mon = MonIdle
    /\ steps = 0
    /\ isMarking = FALSE
    /\ markStartTime = NoMark
    /\ returned = NoCall

\* extractF0(startTime, endTime, f0Min, f0Max) is called and returns
CallExtractF0(startTime, endTime, f0Min, f0Max) ==
    /\ returned' = [fn |-> "extractF0",
                    args |-> <<startTime, endTime, f0Min, f0Max>>,
                    value |-> ExtractF0(startTime, endTime, f0Min, f0Max),
                    threw |-> FALSE,
                    bestLag |-> PitchLagOf(audioBuffer, startTime, endTime, f0Min, f0Max)]
    /\ UNCHANGED <<progVars, markVars, audioVars, jobVars, op, saved, mon, steps>>

NextPitch ==
    \E startTime \in {0, 1}, endTime \in PitchTimes, f0Max \in PitchMaxima :
        CallExtractF0(startTime, endTime, 1, f0Max)

SpecPitch == InitPitch /\ [][NextPitch]_vars

\* The clusterer called directly: kMeansClustering on any list of up to
\* MaxClusterValues values with k from -1 to 3, and on every ordering of the
\* six pitches of the scenario with k = 2; then findNearestCluster on a value
\* of the list and the centroids returned.
ClusterValues == {1, 2, 3, 6}
ClusterCounts == -1 .. 3
ScenarioPitches == <<100, 102, 98, 200, 205, 198>>
ScenarioOrders ==
    {[i \in DOMAIN ScenarioPitches |-> ScenarioPitches[p[i]]] :
        p \in Permutations(DOMAIN ScenarioPitches)}
ClusterInputs ==
    {<<values, k>> : values \in SeqsUpTo(ClusterValues, MaxClusterValues),
                     k \in ClusterCounts}
    \cup {<<values, 2>> : values \in ScenarioOrders}
InitKMeans ==
    /\ segments = <<>>
    /\ heap = <<>>
    /\ selectedSegment = Null
    /\ speakerTracks = [k \in 1 .. 3 |-> SpeakerTrack(k)]
    /\ visibleSpeaker = Null
    /\ undoStack = <<>>
    /\ redoStack = <<>>
    /\ toast = ""
    /\ audioBuffer = NoAudio
    /\ segParams = [silenceThreshold |-> 1, minSegmentDuration |-> 1, pauseTolerance |-> 1]
    /\ runs = [r \in RunIds |-> NoRun]
    /\ jobs = [r \in RunIds |-> NoJob]
    /\ dialog = ClosedDialog
    /\ progressUI = NoProgress
    /\ op = ""
    /\ saved = ""
    /\ mon = MonIdle
    /\ steps = 0
    /\ isMarking = FALSE
    /\ markStartTime = NoMark
    /\ returned \in {[NoCall EXCEPT !.args = input] : input \in ClusterInputs}

\* kMeansClustering(values, k) is called on the arguments drawn: it returns
\* the centroids or throws
CallKMeansClustering ==
    /\ returned.fn = ""
    /\ LET values == returned.args[1]
           k == returned.args[2]
       IN returned' = [fn |-> "kMeansClustering",
                       args |-> returned.args,
                       value |-> IF KMeansThrows(values, k) THEN <<>>
                                 ELSE KMeansClustering(values, k),
                       threw |-> KMeansThrows(values, k)]
    /\ UNCHANGED <<progVars, markVars, audioVars, jobVars, op, saved, mon, steps>>

\* findNearestCluster(values[n], centroids) is called on a value of the list
\* and the centroids that kMeansClustering returned
CallFindNearestCluster(n) ==
    /\ returned.fn = "kMeansClustering"
    /\ ~returned.threw
    /\ n \in DOMAIN returned.args[1]
    /\ returned' = [fn |-> "findNearestCluster",
                    args |-> <<returned.args[1][n], returned.value>>,
                    value |-> FindNearestCluster(returned.args[1][n], returned.value),
                    threw |-> FALSE]
    /\ UNCHANGED <<progVars, markVars, audioVars, jobVars, op, saved, mon, steps>>

NextKMeans ==
    \/ CallKMeansClustering
    \/ \E n \in 1 .. Len(ScenarioPitches) : CallFindNearestCluster(n)

SpecKMeans == InitKMeans /\ [][NextKMeans]_vars

\* The scenario of the silence segmenter: 2 s of silence, 1 s of samples of
\* amplitude 0.5 (all positive, all negative, or alternating), 1 s of silence,
\* at 100 and at 200 samples per second; threshold 0.1, minimum duration
\* 0.3 s (60 ticks), pause tolerance 0.2 s (40 ticks).
ScenarioSigns == {"plus", "minus", "both"}
ScenarioSamples(sampleRate, sign) ==
    [n \in 1 .. 400 * sampleRate |->
        IF n <= 200 * sampleRate \/ n > 300 * sampleRate THEN 0
        ELSE IF sign = "plus" \/ (sign = "both" /\ n % 2 = 0) THEN 5
        ELSE -5]
ScenarioBuffers ==
    {[samples |-> ScenarioSamples(sr, sign), sampleRate |-> sr] :
        sr \in SampleRates, sign \in ScenarioSigns}
ScenarioParams ==
    [silenceThreshold |-> 1, minSegmentDuration |-> 60, pauseTolerance |-> 40]
InitScenario ==
    /\ segments = <<>>
    /\ heap = <<>>
    /\ selectedSegment = Null
    /\ speakerTracks = [k \in 1 .. 3 |-> SpeakerTrack(k)]
    /\ visibleSpeaker = Null
    /\ undoStack = <<>>
    /\ redoStack = <<>>
    /\ toast = "Audio loaded!"
    /\ audioBuffer \in ScenarioBuffers
    /\ segParams = ScenarioParams
    /\ runs = [r \in RunIds |-> NoRun]
    /\ jobs = [r \in RunIds |-> NoJob]
    /\ dialog = ClosedDialog
    /\ progressUI = NoProgress
    /\ op = ""
    /\ saved = ""
    /\ mon = MonIdle
    /\ steps = 0
    /\ isMarking = FALSE
    /\ markStartTime = NoMark
    /\ returned = NoCall

NextScenario ==
    \/ \E r \in RunJobs : SegmentBySilence(r, segParams) /\ UNCHANGED obsVars
    \/ \E r \in RunJobs : SilenceResume(r) /\ UNCHANGED obsVars

SpecScenario == InitScenario /\ [][NextScenario]_vars

\* Overlapping runs: an audio file is loaded and the dialog is open on the
\* silence strategy; Apply can be clicked again while a run is suspended (the
\* dialog stays open until a run commits), and drag-create, delete, undo and
\* redo come between the steps of the runs.
OverlapBuffers ==
    {[samples |-> <<-2, 0, -2>>, sampleRate |-> 1],
     [samples |-> <<0, -2, -2>>, sampleRate |-> 2]}
InitOverlap ==
    /\ segments = <<>>
    /\ heap = <<>>
    /\ selectedSegment = Null
    /\ speakerTracks = [k \in 1 .. 3 |-> SpeakerTrack(k)]
    /\ visibleSpeaker = Null
    /\ undoStack = <<>>
    /\ redoStack = <<>>
    /\ toast = "Audio loaded!"
    /\ audioBuffer \in OverlapBuffers
    /\ segParams = [silenceThreshold |-> 1, minSegmentDuration |-> 0, pauseTolerance |-> 0]
    /\ runs = [r \in RunIds |-> NoRun]
    /\ jobs = [r \in RunIds |-> NoJob]
    /\ dialog = [ClosedDialog EXCEPT !.open = TRUE]
    /\ progressUI = NoProgress
    /\ op = ""
    /\ saved = ""
    /\ mon = MonIdle
    /\ steps = 0
    /\ isMarking = FALSE
    /\ markStartTime = NoMark
    /\ returned = NoCall

\* a user action between the steps of overlapping runs
Interleaved(Handler) ==
    /\ steps < MaxInterleaved
    /\ Handler
    /\ steps' = steps + 1
    /\ MonNext
    /\ UNCHANGED <<audioVars, jobVars, returned, markVars>>

NextOverlap ==
    \/ \E r \in RunIds : RunStep(AutoSegment(r))
    \/ \E r \in RunIds : RunStep(ResumeJob(r))
    \/ Interleaved(OnRegionCreated(0, 2))
    \/ Interleaved(DeleteSegment)
    \/ Interleaved(Undo)
    \/ Interleaved(Redo)

SpecOverlap == InitOverlap /\ [][NextOverlap]_vars

\* The clusterer round by round: kMeansClustering is entered on the arguments
\* drawn, takes the shortcut or builds its first centroids, runs its rounds
\* one at a time and returns; returned holds its locals (pc, the centroids so
\* far, iter).
InitKMeansLoop ==
    /\ segments = <<>>
    /\ heap = <<>>
    /\ selectedSegment = Null
    /\ speakerTracks = [k \in 1 .. 3 |-> SpeakerTrack(k)]
    /\ visibleSpeaker = Null
    /\ undoStack = <<>>
    /\ redoStack = <<>>
    /\ toast = ""
    /\ audioBuffer = NoAudio
    /\ segParams = [silenceThreshold |-> 1, minSegmentDuration |-> 1, pauseTolerance |-> 1]
    /\ runs = [r \in RunIds |-> NoRun]
    /\ jobs = [r \in RunIds |-> NoJob]
    /\ dialog = ClosedDialog
    /\ progressUI = NoProgress
    /\ op = ""
    /\ saved = ""
    /\ mon = MonIdle
    /\ steps = 0
    /\ isMarking = FALSE
    /\ markStartTime = NoMark
    /\ returned \in {[fn |-> "", args |-> input, value |-> <<>>, threw |-> FALSE,
                      pc |-> "idle", iter |-> 0] : input \in ClusterInputs}

\* kMeansClustering(values, k) up to its loop: the shortcut for fewer than k
\* values, else the sorted copy and the first centroids
KMeansEnter ==
    /\ returned.pc = "idle"
    /\ LET values == returned.args[1]
           k == returned.args[2]
       IN returned' =
              IF Len(values) < k
              THEN [returned EXCEPT !.fn = "kMeansClustering", !.pc = "returned",
                                    !.value = KMeansClustering(values, k)]
              ELSE [returned EXCEPT !.fn = "kMeansClustering", !.pc = "loop",
                                    !.value = InitialCentroids(values, k)]
    /\ UNCHANGED <<progVars, markVars, audioVars, jobVars, op, saved, mon, steps>>

\* one pass of for (let iter = 0; iter < 10; iter++): it throws or moves the
\* centroids
KMeansIteration ==
    /\ returned.pc = "loop"
    /\ returned.iter < KMeansRounds
    /\ returned' =
           IF KMeansThrows(returned.args[1], returned.args[2])
           THEN [returned EXCEPT !.pc = "threw", !.threw = TRUE]
           ELSE [returned EXCEPT !.value = KMeansRound(returned.args[1], @),
                                 !.iter = @ + 1]
    /\ UNCHANGED <<progVars, markVars, audioVars, jobVars, op, saved, mon, steps>>

\* the loop is over: return centroids
KMeansReturn ==
    /\ returned.pc = "loop"
    /\ returned.iter >= KMeansRounds
    /\ returned' = [returned EXCEPT !.pc = "returned"]
    /\ UNCHANGED <<progVars, markVars, audioVars, jobVars, op, saved, mon, steps>>

NextKMeansLoop ==
    \/ KMeansEnter
    \/ KMeansIteration
    \/ KMeansReturn

SpecKMeansLoop == InitKMeansLoop /\ [][NextKMeansLoop]_vars

\* The suspension points of the three scans: buffers of every length up to
\* MaxVadSamples, loud at every other sample, at 100, 200 and 300 samples per
\* second (hops of 1, 2 and 3 samples), under every strategy.
YieldRates == {1, 2, 3}
YieldBuffers ==
    {[samples |-> [n \in 1 .. len |-> IF n % 2 = 1 THEN -2 ELSE 0], sampleRate |-> sr] :
        len \in 1 .. MaxVadSamples, sr \in YieldRates}
InitYield ==
    /\ segments = <<>>
    /\ heap = <<>>
    /\ selectedSegment = Null
    /\ speakerTracks = [k \in 1 .. 3 |-> SpeakerTrack(k)]
    /\ visibleSpeaker = Null
    /\ undoStack = <<>>
    /\ redoStack = <<>>
    /\ toast = "Audio loaded!"
    /\ audioBuffer \in YieldBuffers
    /\ segParams = [silenceThreshold |-> 1, minSegmentDuration |-> 0, pauseTolerance |-> 0]
    /\ runs = [r \in RunIds |-> NoRun]
    /\ jobs = [r \in RunIds |-> NoJob]
    /\ dialog \in {[ClosedDialog EXCEPT !.open = TRUE, !.strategy = s] : s \in Strategies}
    /\ progressUI = NoProgress
    /\ op = ""
    /\ saved = ""
    /\ mon = MonIdle
    /\ steps = 0
    /\ isMarking = FALSE
    /\ markStartTime = NoMark
    /\ returned = NoCall

NextYield ==
    \/ \E r \in RunJobs : RunStep(AutoSegment(r))
    \/ \E r \in RunJobs : RunStep(ResumeJob(r))
    \/ HideProgress /\ UNCHANGED obsVars

SpecYield == InitYield /\ [][NextYield]_vars

\* Marking with the S key at any playback time, between drags, undo and redo.
NextMarking ==
    \/ \E now \in Times : Handle(ToggleMarking(now))
    \/ Call(OnRegionCreated(0, 2))
    \/ Call(Undo)
    \/ Call(Redo)

SpecMarking == Init /\ [][NextMarking]_vars

\* -------------------------------------------------------------------- export
\* the formats of the export dialog's select
ExportFormats == {"eaf", "srt", "textgrid", "json", "csv"}

\* downloadFile(filename, content, mimeType): the file offered to the browser,
\* its content as the rows written, one per segment
DownloadFile(filename, rows) ==
    [fn |-> "downloadFile", args |-> <<filename>>, value |-> rows, threw |-> FALSE]

\* the fields of a segment an export writes
ExportRow(o) == heap[o]
RowsOf(objs) == [k \in DOMAIN objs |-> ExportRow(objs[k])]

\* speakerTracks.forEach(track => this.segments.filter(...).sort(...)): the
\* segments tier by tier, each tier a sorted copy
RECURSIVE TierRows(_)
TierRows(tracks) ==
    IF tracks = <<>> THEN <<>>
    ELSE TierRows(Front(tracks))
           \o RowsOf(SortByStart(SelectSeq(segments,
                                           LAMBDA o : heap[o].speaker = Last(tracks).speakerNum),
                                 heap))

ExportEAF ==
    /\ returned' = DownloadFile("transcription.eaf", TierRows(speakerTracks))
    /\ UNCHANGED segments

\* [...this.segments].sort(...)
ExportSRT ==
    /\ returned' = DownloadFile("transcription.srt", RowsOf(SortByStart(segments, heap)))
    /\ UNCHANGED segments

ExportTextGrid ==
    /\ returned' = DownloadFile("transcription.TextGrid", TierRows(speakerTracks))
    /\ UNCHANGED segments

\* this.segments.map(...)
ExportJSON ==
    /\ returned' = DownloadFile("transcription.json", RowsOf(segments))
    /\ UNCHANGED segments

\* this.segments.sort(...).forEach(...): Array.prototype.sort sorts in place
ExportCSV ==
    /\ segments' = SortByStart(segments, heap)
    /\ returned' = DownloadFile("transcription.csv", RowsOf(segments'))

\* the export dialog's Export button
DoExport(format) ==
    /\ op' = "doExport"
    /\ saved' = ""
    /\ CASE format = "eaf" -> ExportEAF
         [] format = "srt" -> ExportSRT
         [] format = "textgrid" -> ExportTextGrid
         [] format = "json" -> ExportJSON
         [] format = "csv" -> ExportCSV
    /\ UNCHANGED <<heap, selectedSegment, speakerTracks, visibleSpeaker,
                   undoStack, redoStack, toast>>

\* one click on Export, observed
ExportClick(format) ==
    /\ steps < MaxSteps
    /\ DoExport(format)
    /\ steps' = steps + 1
    /\ MonNext
    /\ UNCHANGED <<audioVars, jobVars, markVars>>

\* Exports and navigation among segments that are drawn, moved, undone and redone.
NextExport ==
    \/ \E format \in ExportFormats : ExportClick(format)
    \/ Call(GoToNextSegment)
    \/ Call(GoToPreviousSegment)
    \/ Call(OnRegionCreated(0, 2))
    \/ \E o \in Range(segments), start \in Times, end \in Times :
           Call(OnRegionUpdated(o, start, end))
    \/ Call(Undo)
    \/ Call(Redo)

SpecExport == Init /\ [][NextExport]_vars

\* ------------------------------------------------------------------- preview
\* previewSegmentation closes a segment after more than 0.3 s of quiet
\* (app.js:1374), in ticks
PreviewPause == 60

\* the locals of previewSegmentation as its loop is entered
PreviewLocals ==
    [i |-> 0, count |-> 0, inSpeech |-> FALSE, segmentStart |-> 0, silenceStart |-> 0]

\* a loop body that closes the segment at the first quiet sample
PreviewSampleEager(st, threshold, minDuration) ==
    LET amplitude == Abs(audioBuffer.samples[st.i + 1])
        time == TimeOf(st.i, audioBuffer.sampleRate)
    IN IF amplitude > threshold
       THEN [st EXCEPT !.segmentStart = IF st.inSpeech THEN @ ELSE time,
                       !.inSpeech = TRUE,
                       !.silenceStart = time,
                       !.i = @ + 1]
       ELSE IF st.inSpeech /\ (time - st.silenceStart) > 0
       THEN [st EXCEPT !.count = IF st.silenceStart - st.segmentStart >= minDuration
                                 THEN @ + 1 ELSE @,
                       !.inSpeech = FALSE,
                       !.i = @ + 1]
       ELSE [st EXCEPT !.i = @ + 1]

\* the loop body of previewSegmentation for index st.i
PreviewSample(st, threshold, minDuration) ==
    LET amplitude == Abs(audioBuffer.samples[st.i + 1])
        time == TimeOf(st.i, audioBuffer.sampleRate)
    IN IF amplitude > threshold
       THEN [st EXCEPT !.segmentStart = IF st.inSpeech THEN @ ELSE time,
                       !.inSpeech = TRUE,
                       !.silenceStart = time,
                       !.i = @ + 1]
       ELSE IF st.inSpeech /\ (time - st.silenceStart) > PreviewPause
       THEN [st EXCEPT !.count = IF st.silenceStart - st.segmentStart >= minDuration
                                 THEN @ + 1 ELSE @,
                       !.inSpeech = FALSE,
                       !.i = @ + 1]
       ELSE [st EXCEPT !.i = @ + 1]

\* for (let i = 0; i < channelData.length; i++)
RECURSIVE PreviewLoop(_, _, _)
PreviewLoop(st, threshold, minDuration) ==
    IF st.i >= Len(audioBuffer.samples) THEN st
    ELSE PreviewLoop(PreviewSample(st, threshold, minDuration), threshold, minDuration)

\* the Preview button of the dialog: the count written to previewSegmentCount
PreviewSegmentation ==
    /\ audioBuffer # NoAudio
    /\ returned' = [fn |-> "previewSegmentation",
                    args |-> <<segParams.silenceThreshold, segParams.minSegmentDuration>>,
                    value |-> PreviewLoop(PreviewLocals, segParams.silenceThreshold,
                                          segParams.minSegmentDuration).count,
                    threw |-> FALSE]
    /\ UNCHANGED <<progVars, markVars, audioVars, jobVars, op, saved, mon, steps>>

\* The preview and the silence scan on the same buffer: buffers made of up to
\* MaxBlocks blocks, each a loud sample, a quiet sample or a pause of
\* LongQuiet quiet samples (more than 0.3 s at 100 samples per second, less
\* at 200), the dialog's pause tolerance at 0.3 s.
MaxBlocks == 4
LongQuiet == 31
PreviewBlocks == {<<-2>>, <<0>>, [k \in 1 .. LongQuiet |-> 0]}
PreviewDurations == {0, 4}
RECURSIVE Flatten(_)
Flatten(blocks) ==
    IF blocks = <<>> THEN <<>> ELSE Flatten(Front(blocks)) \o Last(blocks)
PreviewBuffers ==
    {[samples |-> Flatten(blocks), sampleRate |-> sr] :
        blocks \in SeqsUpTo(PreviewBlocks, MaxBlocks) \ {<<>>}, sr \in SampleRates}
InitPreview ==
    /\ segments = <<>>
    /\ heap = <<>>
    /\ selectedSegment = Null
    /\ speakerTracks = [k \in 1 .. 3 |-> SpeakerTrack(k)]
    /\ visibleSpeaker = Null
    /\ undoStack = <<>>
    /\ redoStack = <<>>
    /\ toast = "Audio loaded!"
    /\ audioBuffer \in PreviewBuffers
    /\ segParams \in {[silenceThreshold |-> 1, minSegmentDuration |-> d,
                       pauseTolerance |-> PreviewPause] : d \in PreviewDurations}
    /\ runs = [r \in RunIds |-> NoRun]
    /\ jobs = [r \in RunIds |-> NoJob]
    /\ dialog = ClosedDialog
    /\ progressUI = NoProgress
    /\ op = ""
    /\ saved = ""
    /\ mon = MonIdle
    /\ steps = 0
    /\ isMarking = FALSE
    /\ markStartTime = NoMark
    /\ returned = NoCall

NextPreview ==
    \/ PreviewSegmentation
    \/ SegmentBySilence(1, segParams) /\ UNCHANGED obsVars
    \/ SilenceResume(1) /\ UNCHANGED obsVars

SpecPreview == InitPreview /\ [][NextPreview]_vars

\* ==================================================================== claims
\* saveState on a full undo stack drops the bottom entry and keeps the new one
EvictsOldest ==
    /\ Len(undoStack') = maxHistorySize
    /\ Front(undoStack') = Tail(undoStack)
    /\ Last(undoStack').action = saved'
    /\ SnapshotContent(Last(undoStack')) = LiveContent

\* C1: neither history stack ever holds more than maxHistorySize snapshots,
\* whatever mix of saveState, undo, redo and clearHistory ran (redo pushes
\* without a size check), and a saveState that finds the undo stack full
\* removes its oldest entry, never the newest.
C1_HistoryBounded ==
    /\ [](Len(undoStack) <= maxHistorySize /\ Len(redoStack) <= maxHistorySize)
    /\ [][saved' # "" /\ Len(undoStack) = maxHistorySize => EvictsOldest]_vars
\* a redo has just filled the undo stack to capacity, after an eviction
C1_Witness ==
    op = "redo" /\ toast = "Redo applied" /\ mon.shifted
      /\ Len(undoStack) = maxHistorySize

\* C2: after a handler that captured (A), another that captured (B) and an
\* undo(), the live segments and speaker names are those B captured, i.e. the
\* live state before B; after a further redo() they are those B produced.
C2_UndoRedoAfterCaptures ==
    /\ mon.phase = "AAu" => LiveContent = mon.live0
    /\ mon.phase = "AAur" => LiveContent = mon.live1

\* C3: undo() on an empty undo stack changes neither the live segments, the
\* speaker tracks nor either stack and shows "Nothing to undo"; redo() on an
\* empty redo stack likewise, showing "Nothing to redo".
C3_EmptyStackNoOp ==
    [][/\ op' = "undo" /\ undoStack = <<>> =>
            /\ UNCHANGED <<segments, heap, selectedSegment, speakerTracks,
                           undoStack, redoStack>>
            /\ toast' = "Nothing to undo"
       /\ op' = "redo" /\ redoStack = <<>> =>
            /\ UNCHANGED <<segments, heap, selectedSegment, speakerTracks,
                           undoStack, redoStack>>
            /\ toast' = "Nothing to redo"]_vars
\* undo() has just run on an empty undo stack while segments were live and
\* the redo stack was not empty
C3_Witness ==
    op = "undo" /\ toast = "Nothing to undo" /\ undoStack = <<>>
      /\ segments # <<>> /\ redoStack # <<>>

\* C4: every handler that calls saveState leaves the redo stack empty; undo()
\* moves exactly one snapshot off the undo stack and puts one on the redo
\* stack, redo() the reverse, and neither discards any other entry.
C4_SaveClearsRedo ==
    [][/\ saved' # "" => redoStack' = <<>>
       /\ op' = "undo" /\ undoStack # <<>> =>
            undoStack' = Front(undoStack) /\ Front(redoStack') = redoStack
       /\ op' = "redo" /\ redoStack # <<>> =>
            redoStack' = Front(redoStack) /\ Front(undoStack') = undoStack]_vars
\* a saveState has just discarded a non-empty redo stack
C4_Witness ==
    saved # "" /\ mon.cleared > 0 /\ redoStack = <<>>

\* C5: an undo() followed at once by a redo() (and two undos followed by two
\* redos) leaves the live segments and speaker names as they were and leaves
\* on both stacks the snapshot contents that were there, labels aside.
C5_UndoRedoMirror ==
    mon.phase \in {"ur", "uurr", "AAur"} =>
        /\ LiveContent = mon.live1
        /\ Contents(undoStack) = mon.undo1
        /\ Contents(redoStack) = mon.redo1

\* restoreState has applied snapshot `state` in full
Restored(state) ==
    /\ [k \in DOMAIN segments' |-> Fields(heap'[segments'[k]])]
         = SnapshotContent(state).segments
    /\ \A i \in DOMAIN state.speakers :
         \E k \in DOMAIN speakerTracks' :
            /\ speakerTracks'[k].speakerNum = state.speakers[i].id
            /\ speakerTracks'[k].name = state.speakers[i].name

\* C6: whatever happened to the speaker tracks since a snapshot was taken,
\* restoreState leaves the live segments equal to the snapshot's and every
\* speaker of the snapshot present with the snapshot's name.
C6_RestoreTotal ==
    [][/\ op' = "undo" /\ undoStack # <<>> => Restored(Last(undoStack))
       /\ op' = "redo" /\ redoStack # <<>> => Restored(Last(redoStack))]_vars

\* C7: a handler that changes the live segments or the speaker names (undo
\* and redo aside) has pushed a snapshot of the state before the change and
\* emptied the redo stack.
C7_CaptureBeforeMutate ==
    [][LiveContent' # LiveContent /\ op' \notin {"undo", "redo"} =>
          /\ saved' # ""
          /\ redoStack' = <<>>
          /\ SnapshotContent(Last(undoStack')) = LiveContent]_vars

\* a stack after a step holds the snapshots it held, but for a push, a pop,
\* an eviction at the bottom or a reset
Untouched(old, new) ==
    \/ new = old
    \/ new = <<>>
    \/ new = Front(old)
    \/ new # <<>> /\ Front(new) = old
    \/ new # <<>> /\ old # <<>> /\ Front(new) = Tail(old)

\* C8: no snapshot entry on either stack is an object of the live collection,
\* and no step changes a snapshot that stays on a stack: a write to a live
\* segment after a capture or a restore leaves every snapshot as it was.
C8_NoAliasing ==
    /\ [](\A e \in StackEntries(undoStack) \cup StackEntries(redoStack) :
             e.ref \notin DOMAIN heap)
    /\ [][Untouched(undoStack, undoStack') /\ Untouched(redoStack, redoStack')]_vars
\* a live segment has just been written and a snapshot still holds its old fields
C8_Witness ==
    /\ op \in {"onRegionUpdated", "saveTranscription", "speakerSelectChange",
               "moveSegmentToSpeaker"}
    /\ \E o \in Range(segments) :
         \E e \in StackEntries(undoStack) \cup StackEntries(redoStack) :
            e.id = heap[o].id /\ Fields(e) # heap[o]


\* C9: segmentBySilence never emits a segment with end <= start, nor one
\* shorter than minSegmentDuration, whatever the buffer and the parameters.
C9_NoEmptyNoShort ==
    \A r \in RunIds :
        \A k \in 1 .. Len(runs[r].segments) :
            LET seg == runs[r].segments[k]
            IN /\ seg.end > seg.start
               /\ seg.end - seg.start >= runs[r].minDuration

\* the part of C9 that the scan does keep: no emitted segment is shorter than
\* minSegmentDuration, and none ends before it starts
C9_NoShort ==
    \A r \in RunIds :
        \A k \in 1 .. Len(runs[r].segments) :
            LET seg == runs[r].segments[k]
            IN /\ seg.end >= seg.start
               /\ seg.end - seg.start >= runs[r].minDuration

\* C10: whatever the suspensions of the scan and whatever runs between them,
\* a call of segmentBySilence returns the list the uninterrupted scan of its
\* buffer and parameters gives, so two calls on the same buffer and parameters
\* return the same list.
Uninterrupted(run) ==
    SilenceToEnd([run EXCEPT !.pc = "scan", !.i = 0, !.inSpeech = FALSE,
                             !.segmentStart = 0, !.silenceStart = 0,
                             !.segments = <<>>]).segments
SameInputs(a, b) ==
    /\ a.channelData = b.channelData
    /\ a.sampleRate = b.sampleRate
    /\ a.threshold = b.threshold
    /\ a.minDuration = b.minDuration
    /\ a.pauseTolerance = b.pauseTolerance
C10_Deterministic ==
    /\ \A r \in RunIds :
           runs[r].pc = "returned" => runs[r].segments = Uninterrupted(runs[r])
    /\ \A r1, r2 \in RunIds :
           /\ runs[r1].pc = "returned"
           /\ runs[r2].pc = "returned"
           /\ SameInputs(runs[r1], runs[r2])
           => runs[r1].segments = runs[r2].segments
\* both calls have returned a non-empty list for the same buffer, each having
\* been suspended more than once, and another audio file is loaded by now
C10_Witness ==
    /\ runs[1].pc = "returned"
    /\ runs[2].pc = "returned"
    /\ SameInputs(runs[1], runs[2])
    /\ runs[1].segments # <<>>
    /\ Len(runs[1].channelData) > YieldStride
    /\ audioBuffer.samples # runs[1].channelData


\* C11: once Cancel has been pressed while a run was suspended, the run
\* aborts: it never completes and adds none of its segments to the live
\* collection.
C11_CancelAborts ==
    \A r \in RunIds :
        jobs[r].cancelled => jobs[r].pc # "done" /\ jobs[r].added = {}


\* C12: while a run is suspended (or has failed) the live collection holds
\* none of its segments; they are all created in the one step that completes
\* the run, so every snapshot holds all of them or none.
SnapshotIds(state) == {state.segments[k].id : k \in DOMAIN state.segments}
C12_AllOrNothing ==
    /\ [](\A r \in RunIds :
             /\ jobs[r].pc # "done" => jobs[r].added = {}
             /\ \A k \in DOMAIN undoStack :
                    SnapshotIds(undoStack[k]) \cap jobs[r].added \in {{}, jobs[r].added}
             /\ \A k \in DOMAIN redoStack :
                    SnapshotIds(redoStack[k]) \cap jobs[r].added \in {{}, jobs[r].added})
    /\ [][\A r \in RunIds :
             jobs'[r].added # jobs[r].added
             => /\ jobs[r].pc # "done" /\ jobs'[r].pc = "done"
                /\ Cardinality(jobs'[r].added) = Len(jobs'[r].segments)
                /\ jobs'[r].added \subseteq {heap'[o].id : o \in Range(segments')}]_vars
\* a run of two segments has completed after a user action took a snapshot
\* while its scan, suspended, had already found a segment
C12_Witness ==
    /\ jobs[1].pc = "done"
    /\ Cardinality(jobs[1].added) = 2
    /\ Len(undoStack) = 2
    /\ SnapshotIds(undoStack[2]) \cap jobs[1].added = {}
    /\ Len(undoStack[2].segments) = 0
    /\ steps = 1
    /\ Range(segments) # {}


\* C13: a run whose parameters are out of domain (f0Max <= f0Min) fails before
\* any mutation: Apply leaves the segments and both stacks as they were, the
\* run is failed at once and never adds a segment.
OutOfDomain(params) == params.f0Max <= params.f0Min
C13_InvalidParameters ==
    /\ [](\A r \in RunIds :
             jobs[r].pc # "idle" /\ OutOfDomain(jobs[r].params)
             => jobs[r].pc = "failed" /\ jobs[r].added = {})
    /\ [][\A r \in RunIds :
             jobs[r].pc = "idle" /\ jobs'[r].pc # "idle" /\ OutOfDomain(jobs'[r].params)
             => /\ segments' = segments
                /\ undoStack' = undoStack
                /\ redoStack' = redoStack]_vars


\* C14: when the strategy throws, the run fails instead of completing: the
\* error reaches autoSegment (its error toast is shown), no segment of the run
\* is created, the live segments stay as they were and the progress container
\* is hidden.
PitchesOf(job) ==
    LET withPitch == SelectSeq(job.segments, LAMBDA seg : seg.f0 # Null)
    IN [k \in DOMAIN withPitch |-> withPitch[k].f0]
C14_StrategyThrows ==
    /\ [](\A r \in RunIds :
             /\ jobs[r].pc = "failed" => jobs[r].added = {}
             /\ jobs[r].pc = "done" /\ PitchesOf(jobs[r]) # <<>>
                => ~KMeansThrows(PitchesOf(jobs[r]), jobs[r].params.numSpeakers))
    /\ [][\A r \in RunIds :
             jobs[r].pc # "failed" /\ jobs'[r].pc = "failed"
             => /\ toast' = "Segmentation error"
                /\ segments' = segments
                /\ LiveContent' = LiveContent
                /\ ~progressUI'.visible]_vars
\* the clusterer has thrown in a run started while a segment was live
C14_Witness ==
    /\ jobs[1].pc = "failed"
    /\ jobs[1].strategy = "silence_f0"
    /\ PitchesOf(jobs[1]) # <<>>
    /\ Len(jobs[1].reports) > 1
    /\ Len(segments) = 1
    /\ toast = "Segmentation error"
    /\ ~progressUI.visible


\* C15: the values a run passes to its progress callback never decrease and
\* lie in 0..100; in the Silence+F0 strategies those of the silence scan are
\* at most 50 and those of the pitch loop lie in 50..100.
Callbacks(job) == SelectSeq(job.reports, LAMBDA rep : rep.by # "bar")
C15_ProgressMonotone ==
    \A r \in RunIds :
        LET calls == Callbacks(jobs[r])
        IN /\ \A k \in DOMAIN calls : calls[k].twice >= 0 /\ calls[k].twice <= 200
           /\ \A k \in 1 .. Len(calls) - 1 : calls[k].twice <= calls[k + 1].twice
           /\ jobs[r].strategy \in {"silence_f0", "sliding_window"}
              => \A k \in DOMAIN calls :
                     /\ calls[k].by = "silence" => calls[k].twice <= 100
                     /\ calls[k].by = "pitch"
                        => calls[k].twice >= 100 /\ calls[k].twice <= 200
\* a Silence+F0 run has completed after two reports of its scan, the second
\* above zero, and a report of its pitch loop
C15_Witness ==
    /\ jobs[1].pc = "done"
    /\ jobs[1].strategy = "silence_f0"
    /\ Len(Callbacks(jobs[1])) >= 3
    /\ Callbacks(jobs[1])[2].by = "silence"
    /\ Callbacks(jobs[1])[2].twice > 0
    /\ Last(Callbacks(jobs[1])).by = "pitch"

\* C16: every value passed to a progress callback is a whole percent.
C16_IntegerPercent ==
    \A r \in RunIds :
        \A k \in DOMAIN jobs[r].reports : jobs[r].reports[k].twice % 2 = 0

Intervals(list) == [k \in DOMAIN list |-> <<list[k].start, list[k].end>>]
PitchFamily == {"silence_f0", "sliding_window"}
C18_SameIntervals ==
    \A r \in RunIds :
        jobs[r].strategy \in PitchFamily
        => /\ jobs[r].pc \in {"pitch", "done", "failed"}
              => Intervals(jobs[r].segments) = Intervals(Uninterrupted(runs[r]))
           /\ jobs[r].pc = "failed" => PitchesOf(jobs[r]) # <<>>
\* a Silence+F0 run has completed with two segments, neither with a pitch
C18_Witness ==
    /\ jobs[1].pc = "done"
    /\ jobs[1].strategy = "silence_f0"
    /\ Len(jobs[1].segments) = 2
    /\ PitchesOf(jobs[1]) = <<>>
    /\ Cardinality(jobs[1].added) = 2

\* C19: a Silence+F0 run that finds no pitch at all completes, and all its
\* segments are left without a speaker label.
C19_NoPitchUnlabeled ==
    \A r \in RunIds :
        /\ jobs[r].strategy \in PitchFamily
        /\ jobs[r].pc \in {"done", "failed"}
        /\ PitchesOf(jobs[r]) = <<>>
        => /\ jobs[r].pc = "done"
           /\ \A k \in DOMAIN jobs[r].segments : jobs[r].segments[k].speaker = Null

\* C20: in the voice-activity strategy a maximal run of voiced frames that an
\* unvoiced frame ends is emitted, from its first to its last frame, if and
\* only if it has at least 10 frames.
ClosedRun(features, a, b) ==
    /\ a <= b
    /\ \A n \in a .. b : features[n].isVoiced
    /\ a > 1 => ~features[a - 1].isVoiced
    /\ b < Len(features)
    /\ ~features[b + 1].isVoiced
C20_TenFrames ==
    \A r \in RunIds :
        jobs[r].strategy = "vad_clustering" /\ jobs[r].pc = "done"
        => \A a, b \in DOMAIN jobs[r].features :
               ClosedRun(jobs[r].features, a, b)
               => (b - a + 1 >= 10
                   <=> \E k \in DOMAIN jobs[r].segments :
                           /\ jobs[r].segments[k].start = jobs[r].features[a].time
                           /\ jobs[r].segments[k].end = jobs[r].features[b].time)

\* the samples and the lags of the call of extractF0 that returned
PitchSegment ==
    SliceOf(audioBuffer.samples,
            (returned.args[1] * audioBuffer.sampleRate) \div 2,
            (returned.args[2] * audioBuffer.sampleRate) \div 2)
PitchLags ==
    CandidateLags(PitchSegment, audioBuffer.sampleRate, returned.args[3], returned.args[4])
\* C21: extractF0 returns null for a segment shorter than the minimum; for a
\* longer one it returns a frequency only when some candidate lag has a
\* positive autocorrelation sum, and null when no candidate lag has one (an
\* empty lag range included)
C21_PitchOnlyWhenCorrelated ==
    returned.fn = "extractF0" =>
        /\ Len(PitchSegment) < MinPitchSamples => returned.value = Null
        /\ returned.value # Null =>
               \E lag \in PitchLags : Correlation(PitchSegment, lag) > 0
        /\ (\A lag \in PitchLags : Correlation(PitchSegment, lag) <= 0) =>
               returned.value = Null

\* C22: for a non-empty list and any k, kMeansClustering returns centroids,
\* and findNearestCluster(v, centroids) is for every v of the list a valid
\* index into them, at the least distance from v, the lowest such index
C22_AssignValid ==
    /\ returned.fn = "kMeansClustering" /\ returned.args[1] # <<>> => ~returned.threw
    /\ returned.fn = "findNearestCluster" =>
           LET v == returned.args[1]
               centroids == returned.args[2]
               idx == returned.value + 1
           IN /\ idx \in DOMAIN centroids
              /\ \A j \in DOMAIN centroids :
                     ~Less(Distance(v, centroids[j]), Distance(v, centroids[idx]))
              /\ \A j \in DOMAIN centroids :
                     Distance(v, centroids[j]) = Distance(v, centroids[idx]) => idx <= j
\* the same for k of 1 or more (holds)
C22_AssignValidPositive ==
    (\/ returned.fn = "kMeansClustering" /\ returned.args[2] >= 1
     \/ returned.fn = "findNearestCluster") => C22_AssignValid

\* C23: kMeansClustering(values, k) returns a sequence of k centroids for
\* every input; for fewer than k values these are, without any round, the
\* first k values of the list
C23_KCentroids ==
    returned.fn = "kMeansClustering" =>
        LET values == returned.args[1]
            k == returned.args[2]
        IN /\ ~returned.threw
           /\ Len(returned.value) = k
           /\ Len(values) < k =>
                  returned.value = [i \in 1 .. Min2(k, Len(values)) |-> Fraction(values[i], 1)]
\* the same for as many values as k or more, k at least 1 (holds)
C23_KCentroidsEnough ==
    returned.fn = "kMeansClustering" /\ returned.args[2] >= 1
        /\ Len(returned.args[1]) >= returned.args[2] => C23_KCentroids

\* the scenario's list in some order has been clustered with k = 2
ScenarioClustered ==
    /\ returned.fn = "kMeansClustering"
    /\ returned.args[1] \in ScenarioOrders
    /\ returned.args[2] = 2
\* C25: clustering 100, 102, 98, 200, 205, 198 in any order with k = 2
\* returns the centroids 100 and 201, the three low values are assigned to
\* the first and the three high ones to the second
C25_Scenario ==
    ScenarioClustered =>
        /\ ~returned.threw
        /\ returned.value = <<Fraction(100, 1), Fraction(201, 1)>>
        /\ \A v \in Range(ScenarioPitches) :
               FindNearestCluster(v, returned.value) = IF v < 150 THEN 0 ELSE 1
\* the scenario's list was clustered in an order that starts with two high
\* values and a low one
C25_Witness ==
    /\ ScenarioClustered
    /\ returned.args[1] = <<205, 200, 98, 102, 198, 100>>
    /\ FindNearestCluster(98, returned.value) = 0
    /\ FindNearestCluster(205, returned.value) = 1

\* the index (0-based) of the first and of the last loud sample of the scenario
FirstLoud(run) == 200 * run.sampleRate
LastLoud(run) == 300 * run.sampleRate - 1
\* C24: on the scenario the scan returns exactly one segment; it starts at
\* the first loud sample, at 2.0 s (400 ticks), and ends at the last loud
\* sample, within one sample of 3.0 s (600 ticks), at both sample rates
C24_ScenarioOneSegment ==
    \A r \in RunJobs :
        runs[r].pc = "returned" =>
            /\ Len(runs[r].segments) = 1
            /\ runs[r].segments[1].start = TimeOf(FirstLoud(runs[r]), runs[r].sampleRate)
            /\ runs[r].segments[1].start = 400
            /\ runs[r].segments[1].end = TimeOf(LastLoud(runs[r]), runs[r].sampleRate)
            /\ 600 - runs[r].segments[1].end \in {1, 2}
\* the scan of the scenario with samples of both signs at 200 samples per
\* second has returned its segment
C24_Witness ==
    /\ runs[1].pc = "returned"
    /\ runs[1].sampleRate = 2
    /\ runs[1].channelData = ScenarioSamples(2, "both")
    /\ runs[1].segments = <<ProvisionalSegment(400, 599)>>

\* the reference fold of the silence segmenter over the samples from index i
\* (0-based): its state is inSpeech, segmentStart, lastLoudTime and the
\* segments emitted so far
RECURSIVE SilenceFold(_, _, _, _, _, _)
SilenceFold(run, i, inSpeech, segmentStart, lastLoudTime, out) ==
    LET time == TimeOf(i, run.sampleRate)
        end == TimeOf(Len(run.channelData), run.sampleRate)
        x == run.channelData[i + 1]
        loud == x > run.threshold \/ -x > run.threshold
        kept(from, to) ==
            IF to - from >= run.minDuration
            THEN Append(out, [start |-> from, end |-> to, speaker |-> 1, f0 |-> Null])
            ELSE out
    IN IF i = Len(run.channelData)
       THEN IF inSpeech THEN kept(segmentStart, end) ELSE out
       ELSE IF loud
       THEN SilenceFold(run, i + 1, TRUE, IF inSpeech THEN segmentStart ELSE time,
                        time, out)
       ELSE IF inSpeech /\ time - lastLoudTime > run.pauseTolerance
       THEN SilenceFold(run, i + 1, FALSE, segmentStart, lastLoudTime,
                        kept(segmentStart, lastLoudTime))
       ELSE SilenceFold(run, i + 1, inSpeech, segmentStart, lastLoudTime, out)
\* C29: the list segmentBySilence returns is the one the reference fold
\* gives on its samples and parameters: loud is strictly above the threshold,
\* a segment closes at the last loud time once the silence is strictly longer
\* than the pause tolerance, is kept when at least the minimum duration long
\* and dropped otherwise, and a segment open at the end closes at
\* length / sampleRate under the same filter
C29_ReferenceFold ==
    \A r \in RunIds :
        runs[r].pc = "returned" =>
            runs[r].segments = SilenceFold(runs[r], 0, FALSE, 0, 0, <<>>)
\* a scan has returned two segments: one closed by a pause, one by the end of
\* the buffer
C29_Witness ==
    \E r \in RunIds :
        /\ runs[r].pc = "returned"
        /\ Len(runs[r].segments) = 2
        /\ runs[r].inSpeech
        /\ runs[r].segments = SilenceFold(runs[r], 0, FALSE, 0, 0, <<>>)

\* frames a .. b are a maximal run of voiced frames: an unvoiced frame or an
\* end of the list on either side
MaximalRun(features, a, b) ==
    /\ a <= b
    /\ \A n \in a .. b : features[n].isVoiced
    /\ a > 1 => ~features[a - 1].isVoiced
    /\ b < Len(features) => ~features[b + 1].isVoiced
\* C30: in the voice-activity strategy every maximal run of voiced frames
\* that is long enough (more than the limit of frames) gives exactly one
\* segment, from the time of its first to the time of its last frame, a run
\* still open at the last frame included
C30_EveryRunOneSegment ==
    \A r \in RunIds :
        jobs[r].strategy = "vad_clustering" /\ jobs[r].pc = "done"
        => \A a, b \in DOMAIN jobs[r].features :
               MaximalRun(jobs[r].features, a, b) /\ b - a + 1 > VoicedRunLimit
               => Cardinality({k \in DOMAIN jobs[r].segments :
                      /\ jobs[r].segments[k].start = jobs[r].features[a].time
                      /\ jobs[r].segments[k].end = jobs[r].features[b].time}) = 1
\* the same for the runs that an unvoiced frame ends (holds)
C30_ClosedRunOneSegment ==
    \A r \in RunIds :
        jobs[r].strategy = "vad_clustering" /\ jobs[r].pc = "done"
        => \A a, b \in DOMAIN jobs[r].features :
               ClosedRun(jobs[r].features, a, b) /\ b - a + 1 > VoicedRunLimit
               => Cardinality({k \in DOMAIN jobs[r].segments :
                      /\ jobs[r].segments[k].start = jobs[r].features[a].time
                      /\ jobs[r].segments[k].end = jobs[r].features[b].time}) = 1

\* the buffer that was loaded when run r started: the one its silence scan
\* copied into its locals
BufferAtStart(r) ==
    [samples |-> runs[r].channelData, sampleRate |-> runs[r].sampleRate]
\* C28: a run reads samples only from the buffer loaded when it started: the
\* pitch of every segment it has estimated is the one extractF0 gives on
\* that buffer at that sample rate, even if another audio file became ready
\* while the run was suspended
C28_OriginalBuffer ==
    \A r \in RunIds :
        jobs[r].strategy \in PitchFamily /\ jobs[r].pc \in {"pitch", "done"}
        => \A k \in 1 .. Min2(jobs[r].i, Len(jobs[r].segments)) :
               jobs[r].segments[k].f0 =
                   ExtractF0Of(BufferAtStart(r), jobs[r].segments[k].start,
                               jobs[r].segments[k].end, jobs[r].params.f0Min,
                               jobs[r].params.f0Max)
\* the half of it that is about the silence scan (holds): the segments of a
\* run are the ones the scan finds on the buffer loaded at the start
C28_ScanOriginalBuffer ==
    \A r \in RunIds :
        jobs[r].strategy \in PitchFamily /\ jobs[r].pc \in {"pitch", "done"}
        => Intervals(jobs[r].segments) =
               Intervals(SilenceFold(runs[r], 0, FALSE, 0, 0, <<>>))

\* run r is the one whose commit came last
LastCommitted(r) ==
    /\ jobs[r].pc = "done"
    /\ jobs[r].order = Cardinality({q \in RunIds : jobs[q].pc = "done"})
\* C26: whatever came between the steps of a run (drag-create, delete, undo,
\* redo, another Apply), an undo right after the run has committed its
\* segments restores the live state of just before that commit
C26_UndoRestoresBeforeCommit ==
    [][\A r \in RunIds :
           op = "commit" /\ LastCommitted(r) /\ op' = "undo"
           => LiveContent' = jobs[r].before]_vars
\* the same when nothing came between Apply and the commit of the only run
\* (holds)
C26_UndoAloneRestores ==
    [][\A r \in RunIds :
           op = "commit" /\ LastCommitted(r) /\ op' = "undo"
               /\ steps = 0 /\ (\A q \in RunIds \ {r} : jobs[q].pc = "idle")
           => LiveContent' = jobs[r].before]_vars

\* the runs that are suspended in their strategy
Running == {r \in RunIds : jobs[r].pc \in Suspended}
\* C27: at most one run is Running at a time: Apply is not accepted while a
\* run is suspended, so no two runs overlap and commit their segments twice
C27_OneRunning == Cardinality(Running) <= 1

\* the j-th smallest of the values (1-based)
OrderStatistic(values, j) ==
    CHOOSE v \in Range(values) :
        /\ Cardinality({n \in DOMAIN values : values[n] < v}) < j
        /\ j <= Cardinality({n \in DOMAIN values : values[n] <= v})
\* the lowest index among the centroids at the least distance from v
NearestIndex(v, centroids) ==
    MinOf({idx \in DOMAIN centroids :
              \A j \in DOMAIN centroids :
                  ~Less(Distance(v, centroids[j]), Distance(v, centroids[idx]))})
\* the centroids after a round as the claim has it: the mean of the values
\* assigned, the previous value when none is assigned
RoundOf(values, centroids) ==
    [idx \in DOMAIN centroids |->
        LET assigned == {n \in DOMAIN values : NearestIndex(values[n], centroids) = idx}
        IN IF assigned = {} THEN centroids[idx]
           ELSE Fraction(SumTo([n \in DOMAIN values |->
                                   IF n \in assigned THEN values[n] ELSE 0], Len(values)),
                         Cardinality(assigned))]
\* the call has at least k values, k being 1 or more
EnoughValues == returned.args[2] >= 1 /\ Len(returned.args[1]) >= returned.args[2]
\* C31: with at least k values kMeansClustering starts from the centroids
\* sorted[i * floor(n / k)], i = 0 .. k - 1, and performs exactly 10 rounds;
\* a round assigns every value to its nearest centroid, the lower index on a
\* tie, and makes each centroid the mean of its values, a centroid without
\* values keeping its previous value
C31_TenRounds ==
    [][EnoughValues =>
          LET values == returned.args[1]
              k == returned.args[2]
          IN /\ returned.pc = "idle" =>
                    /\ returned'.pc = "loop"
                    /\ returned'.iter = 0
                    /\ returned'.value =
                           [i \in 1 .. k |->
                               Fraction(OrderStatistic(values,
                                                       (i - 1) * (Len(values) \div k) + 1), 1)]
             /\ returned.pc = "loop" /\ returned'.pc = "loop" =>
                    /\ returned'.iter = returned.iter + 1
                    /\ returned'.value = RoundOf(values, returned.value)
             /\ returned'.pc = "returned" =>
                    /\ returned.iter = 10
                    /\ returned'.value = returned.value
             /\ returned'.pc # "threw"]_vars
\* kMeansClustering has returned after 10 rounds on 1, 1, 3 with k = 3: the
\* value 1 is at the same distance from the first two centroids and goes to
\* the first, the second centroid has no value and is still 1
C31_Witness ==
    /\ returned.pc = "returned"
    /\ returned.iter = 10
    /\ returned.args = <<<<1, 3, 1>>, 3>>
    /\ returned.value = <<Fraction(1, 1), Fraction(1, 1), Fraction(3, 1)>>

\* C36: with at least k values the centroids kMeansClustering holds are in
\* non-decreasing order after the initialisation and after every round, so a
\* lower cluster index (speaker label) never has the higher pitch
C36_CentroidsOrdered ==
    EnoughValues /\ returned.pc \in {"loop", "returned"} =>
        \A i, j \in DOMAIN returned.value :
            i < j => ~Less(returned.value[j], returned.value[i])

\* C32: for a segment of at least the minimum length the lag extractF0
\* chooses lies in [floor(sampleRate / f0Max), min(floor(sampleRate / f0Min),
\* length / 2)), no lag of that range has a greater autocorrelation sum, and
\* no smaller lag of the range has an equal one
C32_LagMaximises ==
    returned.fn = "extractF0" /\ Len(PitchSegment) >= MinPitchSamples
        /\ PitchLags # {} =>
        LET x == PitchSegment
            sr == audioBuffer.sampleRate
            sum(lag) == SumTo([i \in 1 .. Len(x) - lag |-> x[i] * x[i + lag]],
                              Len(x) - lag)
            range == {lag \in 0 .. Len(x) :
                         /\ sr \div returned.args[4] <= lag
                         /\ lag < sr \div returned.args[3]
                         /\ 2 * lag < Len(x)}
        IN /\ returned.bestLag \in range
           /\ \A lag \in range : sum(lag) <= sum(returned.bestLag)
           /\ \A lag \in range : sum(lag) = sum(returned.bestLag) => returned.bestLag <= lag
\* extractF0 has chosen lag 1 on a segment where lags 1 and 2 tie for the
\* greatest sum
C32_Witness ==
    /\ returned.fn = "extractF0"
    /\ PitchSegment = <<1, 1, 0, 1, 0>>
    /\ PitchLags = {1, 2}
    /\ Correlation(PitchSegment, 1) = Correlation(PitchSegment, 2)
    /\ returned.bestLag = 1
    /\ returned.value = 48

\* run r goes from one suspension of the scan named to its next one
NextSuspension(r, scan) ==
    jobs[r].pc = scan /\ jobs'[r].pc = scan /\ jobs'[r] # jobs[r]
\* the silence scan suspends exactly at the multiples of its stride and the
\* pitch loop every PitchYieldStride segments (holds)
C33_ScanAndPitchStrides ==
    [][\A r \in RunJobs :
           /\ jobs'[r].pc = "silence" => runs'[r].i % YieldStride = 0
           /\ NextSuspension(r, "silence") => runs'[r].i - runs[r].i = YieldStride
           /\ NextSuspension(r, "pitch") => jobs'[r].i - jobs[r].i = PitchYieldStride]_vars
\* C33: the scans suspend at fixed strides: the silence scan exactly at the
\* sample indices that are multiples of its stride, the pitch loop every
\* PitchYieldStride segments, and the frame scan so that, at every sample
\* rate, two consecutive suspensions are at most its stride plus one hop apart
C33_FixedStrides ==
    [][\A r \in RunJobs :
           /\ jobs'[r].pc = "silence" => runs'[r].i % YieldStride = 0
           /\ NextSuspension(r, "silence") => runs'[r].i - runs[r].i = YieldStride
           /\ NextSuspension(r, "pitch") => jobs'[r].i - jobs[r].i = PitchYieldStride
           /\ NextSuspension(r, "vad") =>
                  jobs'[r].i - jobs[r].i <= VadYieldStride + HopSize(jobs[r].sampleRate)]_vars

\* what the claim has a press of the S key at time now do
MarkingEffect(now) ==
    IF ~isMarking
    THEN /\ isMarking'
         /\ markStartTime' = now
         /\ UNCHANGED <<segments, heap, undoStack, redoStack>>
    ELSE /\ ~isMarking'
         /\ markStartTime' = NoMark
         /\ IF now > markStartTime
            THEN /\ Len(segments') = Len(segments) + 1
                 /\ Front(segments') = segments
                 /\ Last(segments') \notin Range(segments)
                 /\ heap'[Last(segments')].start = markStartTime
                 /\ heap'[Last(segments')].end = now
                 /\ \A o \in Range(segments) : heap'[o] = heap[o]
                 /\ Contents(undoStack') =
                        LET pushed == Append(Contents(undoStack), LiveContent)
                        IN IF Len(pushed) > maxHistorySize THEN Tail(pushed) ELSE pushed
            ELSE UNCHANGED <<segments, heap, undoStack, redoStack>>
\* C34: the S key is a two-state machine: the first press records the time
\* and sets isMarking; the second press always ends with isMarking false and
\* markStartTime null, and creates exactly one segment from the mark to now,
\* after exactly one snapshot, if and only if now is later than the mark;
\* otherwise no segment is created and the history stacks are unchanged
C34_MarkingTwoStates ==
    [][\A now \in Times : Handle(ToggleMarking(now)) => MarkingEffect(now)]_vars
\* a second press at the time of the mark has created nothing and a later
\* pair of presses has created the segment 1 .. 2
C34_Witness ==
    /\ op = "toggleMarking"
    /\ ~isMarking
    /\ steps = 4
    /\ saved = "create segment (S key)"
    /\ Len(segments) = 1
    /\ heap[segments[1]].start = 1
    /\ heap[segments[1]].end = 2
    /\ Len(undoStack) = 1

\* C35: the segments segmentBySilence returns are in strictly increasing time
\* order and pairwise disjoint: each one starts after the end of the one
\* before it, by more than the pause tolerance
C35_OrderedDisjoint ==
    \A r \in RunIds :
        runs[r].pc = "returned" =>
            \A k \in 1 .. Len(runs[r].segments) - 1 :
                /\ runs[r].segments[k + 1].start > runs[r].segments[k].end
                /\ runs[r].segments[k + 1].start - runs[r].segments[k].end
                       > runs[r].pauseTolerance
\* a scan with a pause tolerance of one tick has returned two segments, one
\* quiet sample apart
C35_Witness ==
    \E r \in RunIds :
        /\ runs[r].pc = "returned"
        /\ runs[r].pauseTolerance = 1
        /\ Len(runs[r].segments) = 2
        /\ runs[r].segments[2].start - runs[r].segments[1].end = 4

\* C37: the selected segment is null or one of the objects of the live segment
\* collection
C37_SelectionIsLive ==
    selectedSegment = Null \/ selectedSegment \in Range(segments)

\* the positions, among the given tracks, of the track a segment is drawn on
TrackOf(tracks, h, o) == {k \in DOMAIN tracks : tracks[k].speakerNum = h[o].speaker}
\* every live segment carries the number of an existing speaker track
SpeakersExist == \A o \in Range(segments) : TrackOf(speakerTracks, heap, o) # {}
\* what removeSpeaker(n) is said to do: the segments of speaker n go, the others
\* stay on the track they were on, which has moved down by one if it stood
\* after the removed one
RemoveSpeakerEffect(n) ==
    LET index == MinOf({k \in DOMAIN speakerTracks : speakerTracks[k].speakerNum = n})
    IN /\ segments' = SelectSeq(segments, LAMBDA o : heap[o].speaker # n)
       /\ \A o \in Range(segments') :
              TrackOf(speakerTracks', heap', o) =
                  {IF k < index THEN k ELSE k - 1 : k \in TrackOf(speakerTracks, heap, o)}
\* C38: removeSpeaker(n) deletes exactly the segments of speaker n and leaves
\* every other segment on the speaker track it was on, and at all times every
\* live segment's speaker number is the number of an existing speaker track
C38_SpeakerTracksKept ==
    /\ []SpeakersExist
    /\ [][\A n \in 1 .. MaxTracks : Call(RemoveSpeaker(n)) => RemoveSpeakerEffect(n)]_vars

\* a click on Export in the given format, or a step to the next or the
\* previous segment
ExportOrNavigation(formats) ==
    \/ \E format \in formats : ExportClick(format)
    \/ Call(GoToNextSegment)
    \/ Call(GoToPreviousSegment)
\* the live collection, its order and both history stacks are as they were
CollectionAndHistoryKept ==
    /\ segments' = segments
    /\ \A o \in Range(segments) : heap'[o] = heap[o]
    /\ undoStack' = undoStack
    /\ redoStack' = redoStack
\* the exports other than CSV, and navigation, leave the live collection, its
\* order and the history stacks unchanged
C39_SortedCopies ==
    [][ExportOrNavigation(ExportFormats \ {"csv"}) => CollectionAndHistoryKept]_vars
\* C39: export in any format and next/previous navigation leave the live
\* segment collection, the order of its elements and both history stacks
\* unchanged
C39_ExportKeepsCollection ==
    [][ExportOrNavigation(ExportFormats) => CollectionAndHistoryKept]_vars

\* C40: the count previewSegmentation shows is at most the number of segments
\* the silence scan returns for the same buffer, threshold and minimum duration
\* at a pause tolerance of 0.3 s, at most one less than it, and equal to it
\* when the scan did not end inside an open speech segment
C40_PreviewCount ==
    (returned.fn = "previewSegmentation" /\ runs[1].pc = "returned") =>
        /\ returned.value <= Len(runs[1].segments)
        /\ Len(runs[1].segments) - returned.value <= 1
        /\ ~runs[1].inSpeech => returned.value = Len(runs[1].segments)
\* the buffer ends in speech after a closed segment: the preview shows 1, the
\* scan returns 2
C40_Witness ==
    /\ returned.fn = "previewSegmentation"
    /\ runs[1].pc = "returned"
    /\ runs[1].inSpeech
    /\ returned.value = 1
    /\ Len(runs[1].segments) = 2

====
